---- MODULE Spec2Model ----
(***************************************************************************)
(* The message router (core.Bot), the context store (core.ContextManager), *)
(* the credit store (core.CreditManager) and the command registry of the   *)
(* rakka chat bot, as a state machine.                                     *)
(*                                                                         *)
(* Text is a sequence of one-character strings, so that the string         *)
(* functions of the router (ToLower, HasPrefix, Contains, Fields,          *)
(* ReplaceAll, TrimSpace) are computed and not assumed.                    *)
(***************************************************************************)
EXTENDS Integers, Sequences, FiniteSets, TLC

(***************************************************************************)
(* Bounds of the model.                                                    *)
(***************************************************************************)
\* messages handed to HandleMessage in one run of the router
MaxMsgs == 2
\* the configured global limit ranges over 0..MaxLimit
MaxLimit == 2
\* a provider call reports 0..MaxReport tokens
MaxReport == 1
\* the configured maxHistory ranges over 0..MaxHist
MaxHist == 1
\* store operations in one run of the credit-store specification
MaxOps == 3
\* AddMessage calls in one run of the context-store specification
MaxAdds == 5
\* the writes of the credit file that fail
MaxFaults == 1

(***************************************************************************)
(* strings                                                                 *)
(***************************************************************************)
\* unicode.ToLower on the letters A..Z; every other character stays
UpperCase ==
    <<"A", "B", "C", "D", "E", "F", "G", "H", "I", "J", "K", "L", "M",
      "N", "O", "P", "Q", "R", "S", "T", "U", "V", "W", "X", "Y", "Z">>
LowerCase ==
    <<"a", "b", "c", "d", "e", "f", "g", "h", "i", "j", "k", "l", "m",
      "n", "o", "p", "q", "r", "s", "t", "u", "v", "w", "x", "y", "z">>

ToLowerCh(c) ==
    IF \E i \in DOMAIN UpperCase : UpperCase[i] = c
    THEN LowerCase[CHOOSE i \in DOMAIN UpperCase : UpperCase[i] = c]
    ELSE c

\* strings.ToLower
ToLower(s) == [i \in DOMAIN s |-> ToLowerCh(s[i])]

\* strings.HasPrefix
HasPrefix(s, p) == Len(s) >= Len(p) /\ SubSeq(s, 1, Len(p)) = p

\* strings.Contains
Contains(s, p) ==
    \E i \in 1..(Len(s) - Len(p) + 1) : SubSeq(s, i, i + Len(p) - 1) = p

\* unicode.IsSpace on the characters the model's texts use
IsSpace(c) == c \in {" ", "\n", "\t"}

\* strings.TrimSpace
RECURSIVE TrimLeft(_)
TrimLeft(s) ==
    IF s # <<>> /\ IsSpace(Head(s)) THEN TrimLeft(Tail(s)) ELSE s

RECURSIVE TrimRight(_)
TrimRight(s) ==
    IF s # <<>> /\ IsSpace(s[Len(s)])
    THEN TrimRight(SubSeq(s, 1, Len(s) - 1))
    ELSE s

TrimSpace(s) == TrimRight(TrimLeft(s))

\* the first field of a text that starts with a non-space character
RECURSIVE TakeField(_)
TakeField(s) ==
    IF s = <<>> \/ IsSpace(Head(s)) THEN <<>>
    ELSE <<Head(s)>> \o TakeField(Tail(s))

\* strings.Fields: the maximal runs of non-space characters
RECURSIVE Fields(_)
Fields(s) ==
    LET t == TrimLeft(s)
        f == TakeField(t)
    IN  IF t = <<>> THEN <<>>
        ELSE <<f>> \o Fields(SubSeq(t, Len(f) + 1, Len(t)))

\* strings.ReplaceAll(s, old, ""), old not empty: the non-overlapping
\* occurrences of old are removed from left to right
RECURSIVE RemoveAll(_, _)
RemoveAll(s, old) ==
    IF s = <<>> THEN <<>>
    ELSE IF HasPrefix(s, old) THEN RemoveAll(SubSeq(s, Len(old) + 1, Len(s)), old)
    ELSE <<Head(s)>> \o RemoveAll(Tail(s), old)


(***************************************************************************)
(* configuration                                                           *)
(***************************************************************************)
\* BotConfig.Name
BotName == <<"B", "o", "t">>

\* CreditsConfig.MasterKey
MasterKey == "mk"

\* user ids and chat ids are texts too: the conversation key concatenates them
UserIDs == {<<"a">>, <<"b">>}
ChatIDs == {<<"r">>}

\* the API keys users give to setkey
KeyK1 == <<"k", "1">>

\* the values crypto/rand fills a nonce with; ZeroNonce is the zero value
\* of [24]byte
Nonces == {"n1", "n2"}
ZeroNonce == "n0"

VARIABLES
    \* core.CreditManager
    users,          \* cm.users: user id -> UserCredit
    dirty,          \* cm.dirty
    file,           \* the file at cm.filePath
    globalLimit,    \* cm.globalLimit
    mu,             \* cm.mu: the goroutines holding the lock, with their modes
    faultsLeft,     \* writes of the file that are still going to fail
    \* core.ContextManager
    conversations,  \* cm.conversations: key -> Messages
    maxHistory,     \* cm.maxHistory
    \* llm.Provider
    provider,       \* the provider the bot was made with: its ID and its APIKey field
    \* the goroutines running Bot.HandleMessage
    pc,             \* task -> where the task is
    local,          \* task -> the task's local variables
    trace,          \* task -> what the task has done so far, in order
    nMsgs,          \* messages handed to HandleMessage so far
    exchanges,      \* key -> the exchanges the provider answered since the last clear
    turns,          \* key -> the turns appended since the last clear
    \* a caller of the stores' methods
    last,           \* the last call: method, arguments, results
    keysSet,        \* user id -> the keys the user's SetUserAPIKey calls gave, in order
    nOps            \* calls so far

creditVars == <<users, dirty, file, globalLimit, mu, faultsLeft>>
ctxVars == <<conversations, maxHistory, provider>>
taskVars == <<pc, local, trace, nMsgs, exchanges>>
callVars == <<last, keysSet, nOps>>
vars == <<users, dirty, file, globalLimit, mu, faultsLeft, conversations, maxHistory, provider,
          pc, local, trace, nMsgs, exchanges, turns, last, keysSet, nOps>>

\* m with key k set to v (a Go map assignment)
Put(m, k, v) == [x \in DOMAIN m \cup {k} |-> IF x = k THEN v ELSE m[x]]

EmptyMap == [x \in {} |-> 0]

(***************************************************************************)
(* secretbox: Seal binds the plaintext to the nonce and the key; Open      *)
(* succeeds exactly under the nonce and the key the box was sealed with.   *)
(***************************************************************************)
NilKey == [isNil |-> TRUE]

Seal(plain, nonce, key) ==
    [isNil |-> FALSE, plain |-> plain, nonce |-> nonce, key |-> key]

Open(box, nonce, key) ==
    IF ~box.isNil /\ box.nonce = nonce /\ box.key = key
    THEN [ok |-> TRUE, plain |-> box.plain]
    ELSE [ok |-> FALSE, plain |-> <<>>]

(***************************************************************************)
(* core.CreditManager                                                      *)
(***************************************************************************)
\* &UserCredit{UserID: userID}
NewUserCredit(userID) ==
    [UserID |-> userID, TokenCount |-> 0, APIKey |-> NilKey,
     Nonce |-> ZeroNonce, SearchEnabled |-> FALSE]

\* json.Marshal(cm.users): the fields under their json names
Marshal(us) ==
    [u \in DOMAIN us |->
        [user_id |-> us[u].UserID, token_count |-> us[u].TokenCount,
         api_key |-> us[u].APIKey, nonce |-> us[u].Nonce,
         search_enabled |-> us[u].SearchEnabled]]

\* json.Unmarshal(data, &cm.users)
Unmarshal(data) ==
    [u \in DOMAIN data |->
        [UserID |-> data[u].user_id, TokenCount |-> data[u].token_count,
         APIKey |-> data[u].api_key, Nonce |-> data[u].nonce,
         SearchEnabled |-> data[u].search_enabled]]

NoFile == [exists |-> FALSE]

\* the file after os.WriteFile has written the map us
WriteFile(us) == [exists |-> TRUE, data |-> Marshal(us)]

\* saveToFile / saveToFileUnsafe: os.WriteFile writes the map us, or it
\* returns an error and the file stays as it is; the error is logged or
\* dropped, the caller does not learn of it
saveToFile(us) ==
    \E ok \in (IF faultsLeft > 0 THEN BOOLEAN ELSE {TRUE}) :
        /\ file' = (IF ok THEN WriteFile(us) ELSE file)
        /\ faultsLeft' = (IF ok THEN faultsLeft ELSE faultsLeft - 1)

\* loadFromFile: the map after reading the file f
loadFromFile(f) == IF f.exists THEN Unmarshal(f.data) ELSE EmptyMap

\* encryptAPIKey, with the nonce crypto/rand returned (rand.Read does not
\* fail: since go 1.24 it returns no error)
encryptAPIKey(apiKey, nonce) ==
    [encrypted |-> Seal(apiKey, nonce, MasterKey), nonce |-> nonce]

\* decryptAPIKey that takes the plaintext without the test of the box
decryptAPIKeyUnchecked(encrypted, nonce) ==
    [key |-> encrypted.plain, err |-> "nil"]

decryptAPIKey(encrypted, nonce) ==
    LET r == Open(encrypted, nonce, MasterKey)
    IN  IF r.ok THEN [key |-> r.plain, err |-> "nil"]
        ELSE [key |-> <<>>, err |-> "failed to decrypt API key"]

\* the map with a record for userID, created when cm.users[userID] is nil
WithUser(us, userID) ==
    IF userID \in DOMAIN us THEN us ELSE Put(us, userID, NewUserCredit(userID))

\* SetUserAPIKey with the line that stores the nonce left out
SetUserAPIKeyNoNonce(userID, apiKey, nonce) ==
    LET e  == encryptAPIKey(apiKey, nonce)
        us == [WithUser(users, userID) EXCEPT ![userID].APIKey = e.encrypted]
    IN  /\ users' = us
        /\ saveToFile(us)
        /\ UNCHANGED <<dirty, globalLimit, mu>>

\* SetUserAPIKey that replaces the record of the user by a new one
SetUserAPIKeyResets(userID, apiKey, nonce) ==
    LET e  == encryptAPIKey(apiKey, nonce)
        us == Put(users, userID,
                  [NewUserCredit(userID) EXCEPT
                      !.APIKey = e.encrypted, !.Nonce = e.nonce])
    IN  /\ users' = us
        /\ saveToFile(us)
        /\ UNCHANGED <<dirty, globalLimit, mu>>

SetUserAPIKey(userID, apiKey, nonce) ==
    LET e  == encryptAPIKey(apiKey, nonce)
        us == [WithUser(users, userID) EXCEPT
                  ![userID].APIKey = e.encrypted,
                  ![userID].Nonce = e.nonce]
    IN  /\ users' = us
        /\ saveToFile(us)
        /\ UNCHANGED <<dirty, globalLimit, mu>>

GetUserAPIKey(userID) ==
    IF userID \notin DOMAIN users \/ users[userID].APIKey.isNil
    THEN [key |-> <<>>, err |-> "no API key found for user"]
    ELSE decryptAPIKey(users[userID].APIKey, users[userID].Nonce)

\* CanUseAPI with the limit checked before the key
CanUseAPILimitFirst(userID) ==
    IF userID \in DOMAIN users /\ users[userID].TokenCount >= globalLimit
    THEN FALSE
    ELSE TRUE

CanUseAPI(userID) ==
    IF userID \in DOMAIN users /\ ~users[userID].APIKey.isNil THEN TRUE
    ELSE IF userID \in DOMAIN users /\ users[userID].TokenCount >= globalLimit
    THEN FALSE
    ELSE TRUE

\* RecordUsage without the test for a personal key
RecordUsageAlways(userID, tokens) ==
    LET us == WithUser(users, userID)
    IN  /\ users' = [us EXCEPT ![userID].TokenCount = @ + tokens]
        /\ dirty' = TRUE
        /\ UNCHANGED <<file, globalLimit, mu, faultsLeft>>

RecordUsage(userID, tokens) ==
    LET us == WithUser(users, userID)
    IN  /\ users' = IF us[userID].APIKey.isNil
                    THEN [us EXCEPT ![userID].TokenCount = @ + tokens]
                    ELSE us
        /\ dirty' = TRUE
        /\ UNCHANGED <<file, globalLimit, mu, faultsLeft>>

GetUserStats(userID) ==
    IF userID \notin DOMAIN users
    THEN [tokens |-> 0, hasOwnKey |-> FALSE]
    ELSE [tokens |-> users[userID].TokenCount,
          hasOwnKey |-> ~users[userID].APIKey.isNil]

\* SetSearchEnabled that starts from a new record every time
SetSearchEnabledFresh(userID, enabled) ==
    LET us == Put(users, userID,
                  [NewUserCredit(userID) EXCEPT !.SearchEnabled = enabled])
    IN  /\ users' = us
        /\ saveToFile(us)
        /\ UNCHANGED <<dirty, globalLimit, mu>>

SetSearchEnabled(userID, enabled) ==
    LET us == [WithUser(users, userID) EXCEPT ![userID].SearchEnabled = enabled]
    IN  /\ users' = us
        /\ saveToFile(us)
        /\ UNCHANGED <<dirty, globalLimit, mu>>

IsSearchEnabled(userID) ==
    IF userID \notin DOMAIN users THEN FALSE
    ELSE users[userID].SearchEnabled

\* a tick that clears dirty and writes nothing
autoSaveLoopNoWrite ==
    /\ dirty' = FALSE
    /\ UNCHANGED <<file, faultsLeft, users, globalLimit, mu>>

\* one tick of autoSaveLoop
autoSaveLoop ==
    /\ IF dirty
       THEN saveToFile(users) /\ dirty' = FALSE
       ELSE UNCHANGED <<file, dirty, faultsLeft>>
    /\ UNCHANGED <<users, globalLimit, mu>>

ForceSave ==
    /\ saveToFile(users)
    /\ UNCHANGED <<users, dirty, globalLimit, mu>>


(***************************************************************************)
(* core.ContextManager                                                     *)
(***************************************************************************)
GetConversationKey(roomID, userID) == roomID \o <<"|">> \o userID

\* Message{Role: role, Content: content}
Message(role, content) == [Role |-> role, Content |-> content]

\* conv.Messages[len(conv.Messages)-n:], taken when len(conv.Messages) > n
LastN(msgs, n) == SubSeq(msgs, Len(msgs) - n + 1, Len(msgs))

\* AddMessage that keeps the oldest turns when the bound is exceeded
AddMessageKeepOldest(convs, roomID, userID, role, content) ==
    LET key  == GetConversationKey(roomID, userID)
        conv == IF key \in DOMAIN convs THEN convs[key]
                ELSE [Messages |-> <<>>, MaxHistory |-> maxHistory]
        msgs == Append(conv.Messages, Message(role, content))
    IN  Put(convs, key,
            [conv EXCEPT !.Messages =
                IF Len(msgs) > maxHistory * 2
                THEN SubSeq(msgs, 1, maxHistory * 2)
                ELSE msgs])

\* AddMessage that keeps maxHistory turns, not maxHistory exchanges
AddMessageHalf(convs, roomID, userID, role, content) ==
    LET key  == GetConversationKey(roomID, userID)
        conv == IF key \in DOMAIN convs THEN convs[key]
                ELSE [Messages |-> <<>>, MaxHistory |-> maxHistory]
        msgs == Append(conv.Messages, Message(role, content))
    IN  Put(convs, key,
            [conv EXCEPT !.Messages =
                IF Len(msgs) > maxHistory
                THEN LastN(msgs, maxHistory)
                ELSE msgs])

\* the conversations after AddMessage(roomID, userID, role, content)
AddMessage(convs, roomID, userID, role, content) ==
    LET key  == GetConversationKey(roomID, userID)
        conv == IF key \in DOMAIN convs THEN convs[key]
                ELSE [Messages |-> <<>>, MaxHistory |-> maxHistory]
        msgs == Append(conv.Messages, Message(role, content))
    IN  Put(convs, key,
            [conv EXCEPT !.Messages =
                IF Len(msgs) > maxHistory * 2
                THEN LastN(msgs, maxHistory * 2)
                ELSE msgs])

\* the text of the turns: role + ": " + content + "\n" for each turn
RECURSIVE Render(_)
Render(msgs) ==
    IF msgs = <<>> THEN <<>>
    ELSE <<Head(msgs).Role, ":", " ">> \o Head(msgs).Content \o <<"\n">>
         \o Render(Tail(msgs))

GetConversationHistory(roomID, userID) ==
    LET key == GetConversationKey(roomID, userID)
    IN  IF key \notin DOMAIN conversations
           \/ Len(conversations[key].Messages) = 0
        THEN <<>>
        ELSE Render(conversations[key].Messages)

\* ClearConversation that drops the oldest turn of the thread only
ClearConversationOldest(convs, roomID, userID) ==
    LET key == GetConversationKey(roomID, userID)
    IN  IF key \in DOMAIN convs /\ convs[key].Messages # <<>>
        THEN [convs EXCEPT ![key].Messages = Tail(@)]
        ELSE convs

\* the conversations after ClearConversation(roomID, userID)
ClearConversation(convs, roomID, userID) ==
    [k \in DOMAIN convs \ {GetConversationKey(roomID, userID)} |-> convs[k]]

\* the turns appended to a key since the key was last cleared
TurnsOf(key) == IF key \in DOMAIN turns THEN turns[key] ELSE <<>>

\* the stored turns of a key
Stored(key) ==
    IF key \in DOMAIN conversations THEN conversations[key].Messages ELSE <<>>


(***************************************************************************)
(* The stores before any message: NewCreditManager has read the file,      *)
(* NewContextManager has made an empty map, no task runs.                  *)
(***************************************************************************)
\* the goroutines HandleMessage runs in: this specification follows the
\* messages one after another, each handled to its end before the next arrives
Tasks == {1}

NoLocal == [set |-> FALSE]

\* the credit files the process may find when it starts
InitFiles ==
    { NoFile,
      WriteFile(Put(EmptyMap, <<"a">>,
          [NewUserCredit(<<"a">>) EXCEPT !.TokenCount = 1,
                                         !.SearchEnabled = TRUE])) }

\* NewCreditManager(cfg), for the file f and the limit of the configuration
NewCreditManager(f, limit) ==
    /\ file = f
    /\ users = loadFromFile(f)
    /\ globalLimit = limit
    /\ dirty = FALSE
    /\ mu = {}

\* every write of the file succeeds
ReliableDisk == faultsLeft = 0

\* NewContextManager(maxHistory)
NewContextManager(n) ==
    /\ conversations = EmptyMap
    /\ maxHistory = n

\* Config.APIKey: the key of the service
ServiceKey == <<"s", "k">>

\* llm.New: the provider cfg.Provider names, with the key of the service
New(id) == provider = [ID |-> id, APIKey |-> ServiceKey]

NoTasks ==
    /\ pc = [t \in Tasks |-> "idle"]
    /\ local = [t \in Tasks |-> NoLocal]
    /\ trace = [t \in Tasks |-> <<>>]
    /\ nMsgs = 0
    /\ exchanges = EmptyMap

NoCalls ==
    /\ last = [op |-> "none"]
    /\ keysSet = EmptyMap
    /\ nOps = 0

(***************************************************************************)
(* The credit store under any sequence of calls of its methods.            *)
(***************************************************************************)
\* the keys the caller stores: any text is a key
StoreKeys == {KeyK1, <<"K", " ", "\n">>}

InitCredit ==
    /\ \E f \in InitFiles, limit \in 0..MaxLimit : NewCreditManager(f, limit)
    /\ ReliableDisk
    /\ NewContextManager(1)
    /\ New("gemini")
    /\ turns = EmptyMap
    /\ NoTasks
    /\ NoCalls

\* the part of a call that is the same for every method that writes
Called(rec) ==
    /\ nOps < MaxOps
    /\ nOps' = nOps + 1
    /\ last' = rec
    /\ UNCHANGED <<ctxVars, taskVars, turns>>

\* a call of a method that only reads the store
Asked(rec) ==
    /\ UNCHANGED <<creditVars, keysSet>>
    /\ Called(rec)

\* the keys SetUserAPIKey was called with for u, oldest first
KeysOf(u) == IF u \in DOMAIN keysSet THEN keysSet[u] ELSE <<>>

CallSetUserAPIKey(u, k) ==
    /\ \E nonce \in Nonces : SetUserAPIKey(u, k, nonce)
    /\ keysSet' = Put(keysSet, u, Append(KeysOf(u), k))
    /\ Called([op |-> "SetUserAPIKey", user |-> u, key |-> k, err |-> "nil"])

CallGetUserAPIKey(u) ==
    Asked([op |-> "GetUserAPIKey", user |-> u, result |-> GetUserAPIKey(u)])

CallCanUseAPI(u) ==
    Asked([op |-> "CanUseAPI", user |-> u, result |-> CanUseAPI(u)])

CallRecordUsage(u, n) ==
    /\ RecordUsage(u, n)
    /\ UNCHANGED keysSet
    /\ Called([op |-> "RecordUsage", user |-> u, tokens |-> n,
               before |-> GetUserStats(u)])

CallGetUserStats(u) ==
    Asked([op |-> "GetUserStats", user |-> u, result |-> GetUserStats(u)])

CallSetSearchEnabled(u, b) ==
    /\ SetSearchEnabled(u, b)
    /\ UNCHANGED keysSet
    /\ Called([op |-> "SetSearchEnabled", user |-> u, enabled |-> b])

CallIsSearchEnabled(u) ==
    Asked([op |-> "IsSearchEnabled", user |-> u, result |-> IsSearchEnabled(u)])

\* the ticker of autoSaveLoop fires
Tick ==
    /\ autoSaveLoop
    /\ UNCHANGED <<ctxVars, taskVars, turns, callVars>>

CallForceSave ==
    /\ ForceSave
    /\ UNCHANGED keysSet
    /\ Called([op |-> "ForceSave"])

NextCredit ==
    \/ \E u \in UserIDs, k \in StoreKeys : CallSetUserAPIKey(u, k)
    \/ \E u \in UserIDs : CallGetUserAPIKey(u)
    \/ \E u \in UserIDs : CallCanUseAPI(u)
    \/ \E u \in UserIDs, n \in 0..MaxReport : CallRecordUsage(u, n)
    \/ \E u \in UserIDs : CallGetUserStats(u)
    \/ \E u \in UserIDs, b \in BOOLEAN : CallSetSearchEnabled(u, b)
    \/ \E u \in UserIDs : CallIsSearchEnabled(u)
    \/ Tick
    \/ CallForceSave

SpecCredit == InitCredit /\ [][NextCredit]_vars

(***************************************************************************)
(* The context store under any sequence of calls of its methods.           *)
(***************************************************************************)
Roles == {"user", "bot"}
Contents == {<<"x">>, <<"y">>}

InitCtx ==
    /\ NewCreditManager(NoFile, 1)
    /\ ReliableDisk
    /\ \E n \in 0..MaxHist : NewContextManager(n)
    /\ New("gemini")
    /\ turns = EmptyMap
    /\ NoTasks
    /\ NoCalls

CallAddMessage(room, user, role, content) ==
    /\ nOps < MaxAdds
    /\ nOps' = nOps + 1
    /\ conversations' = AddMessage(conversations, room, user, role, content)
    /\ turns' = LET key == GetConversationKey(room, user)
                IN  Put(turns, key, Append(TurnsOf(key), Message(role, content)))
    /\ last' = [op |-> "AddMessage", room |-> room, user |-> user]
    /\ UNCHANGED <<creditVars, maxHistory, provider, taskVars, keysSet>>

CallClearConversation(room, user) ==
    /\ conversations' = ClearConversation(conversations, room, user)
    /\ turns' = [k \in DOMAIN turns \ {GetConversationKey(room, user)} |-> turns[k]]
    /\ last' = [op |-> "ClearConversation", room |-> room, user |-> user]
    /\ UNCHANGED <<creditVars, maxHistory, provider, taskVars, keysSet, nOps>>

CallGetConversationHistory(room, user) ==
    /\ last' = [op |-> "GetConversationHistory", room |-> room, user |-> user,
                result |-> GetConversationHistory(room, user)]
    /\ UNCHANGED <<creditVars, ctxVars, turns, taskVars, keysSet, nOps>>

NextCtx ==
    \/ \E room \in ChatIDs, user \in UserIDs, role \in Roles, content \in Contents :
          CallAddMessage(room, user, role, content)
    \/ \E room \in ChatIDs, user \in UserIDs : CallClearConversation(room, user)
    \/ \E room \in ChatIDs, user \in UserIDs : CallGetConversationHistory(room, user)

SpecCtx == InitCtx /\ [][NextCtx]_vars

\* ids are whatever strings the platform adapters pass: these hold the "|"
\* that GetConversationKey puts between the two ids
SepChatIDs == {<<"r">>, <<"r", "|", "a">>}
SepUserIDs == {<<"a">>, <<"a", "|", "a">>}

NextSep ==
    \/ \E room \in SepChatIDs, user \in SepUserIDs, content \in Contents :
          CallAddMessage(room, user, "user", content)
    \/ \E room \in SepChatIDs, user \in SepUserIDs : CallClearConversation(room, user)
    \/ \E room \in SepChatIDs, user \in SepUserIDs :
          CallGetConversationHistory(room, user)

\* the context store called with such ids
SpecSep == InitCtx /\ [][NextSep]_vars


(***************************************************************************)
(* The texts of the model: what users write, what the provider answers,    *)
(* what the router and the commands send.                                  *)
(***************************************************************************)
TextHi == <<"h", "i">>
TextBotHi == <<"B", "o", "t", " ", "h", "i">>
TextHiBot == <<"h", "i", " ", "b", "o", "t">>
TextSetKey == <<"!", "b", "o", "t", " ", "l", "l", "m", " ", "s", "e", "t", "k", "e", "y", " ", "k", "1">>
TextClear == <<"!", "B", "o", "t", " ", "L", "L", "M", " ", "c", "l", "e", "a", "r">>
TextUnknown == <<"!", "b", "o", "t", " ", "f", "o", "o">>
TextEnable ==
    <<"!", "b", "o", "t", " ", "l", "l", "m", " ", "e", "n", "a", "b", "l", "e", " ",
      "S", "e", "a", "r", "c", "h">>

\* the bodies of the messages the platforms hand to HandleMessage
Bodies ==
    {TextHi, TextBotHi, TextHiBot, TextSetKey, TextClear, TextUnknown, TextEnable}

\* IncomingMessage
IncomingMessage(user, body, image) ==
    [UserID |-> user, ChatID |-> <<"r">>, Content |-> body, IsImage |-> image]

\* the messages the platforms hand to HandleMessage: one user writes every
\* body, with an image too; another user chats beside the first
IncomingMessages ==
    {IncomingMessage(<<"a">>, body, FALSE) : body \in Bodies}
    \cup {IncomingMessage(<<"a">>, TextBotHi, TRUE),
          IncomingMessage(<<"b">>, TextBotHi, FALSE)}

\* the texts a provider answers with
Responses == {<<"o", "k">>}

\* the errors a provider returns: a safety block, a failed connection
ProviderErrors == {"blocked by safety settings", "API connection failed"}

LimitText ==
    <<"Sorry, you have reached your API usage limit. Use !">> \o BotName
    \o <<" llm setkey <your_api_key> to add your own Gemini API key.">>
TroubleText == <<"I am having trouble thinking right now.">>
AnalyzingText == <<"Analyzing image...">>
ImageErrorText == <<"Error analyzing image.">>
DescribeText == <<"Describe the image.">>
HistoryHeader == <<"Conversation history:", "\n">>

(***************************************************************************)
(* core.CommandRegistry and the default commands                           *)
(***************************************************************************)
CmdHelp == <<"h", "e", "l", "p">>
CmdLlm == <<"l", "l", "m">>
SubSetKey == <<"s", "e", "t", "k", "e", "y">>
SubStats == <<"s", "t", "a", "t", "s">>
SubClear == <<"c", "l", "e", "a", "r">>
SubEnable == <<"e", "n", "a", "b", "l", "e">>
SubDisable == <<"d", "i", "s", "a", "b", "l", "e">>
FeatureSearch == <<"s", "e", "a", "r", "c", "h">>

\* the handler of roulette takes no argument
CmdRoulette == <<"r", "o", "u", "l", "e", "t", "t", "e">>

\* the names RegisterDefaultCommands registers, as Register stores them
LookupCommands ==
    { <<"a", "n", "i", "m", "e">>, <<"m", "a", "n", "g", "a">>,
      <<"w", "i", "k", "i">>, <<"u", "r", "b", "a", "n">>,
      <<"8", "b", "a", "l", "l">>, CmdRoulette }
commands == {ToLower(n) : n \in {CmdHelp, CmdLlm} \cup LookupCommands}

\* what a handler does to the stores, and the text it sends
Outcome(store, arg, text) == [store |-> store, arg |-> arg, text |-> text]

\* a handler of "llm" that takes the token after setkey as the key, however
\* many tokens follow it
LlmHandlerFirstArg(m, args) ==
    IF Len(args) >= 2 /\ ToLower(args[1]) = SubSetKey
    THEN Outcome("SetUserAPIKey", args[2], <<"Your API key has been set securely.">>)
    ELSE Outcome("none", <<>>, <<"Usage: llm <subcommand> <args>">>)

\* the handler of "llm"
LlmHandler(m, args) ==
    IF Len(args) < 1 THEN Outcome("none", <<>>, <<"Usage: llm <subcommand> <args>">>)
    ELSE LET subcmd  == ToLower(args[1])
             subargs == Tail(args)
         IN  CASE subcmd = SubSetKey ->
                    IF Len(subargs) # 1
                    THEN Outcome("none", <<>>, <<"Usage: llm setkey <your_api_key>">>)
                    ELSE Outcome("SetUserAPIKey", subargs[1],
                                 <<"Your API key has been set securely.">>)
               [] subcmd = SubStats ->
                    LET st == GetUserStats(m.UserID)
                    IN  Outcome("none", <<>>,
                            <<"Tokens used: ", st.tokens>> \o
                            (IF st.hasOwnKey THEN <<" (using your own API key)">>
                             ELSE <<" (global limit: ", globalLimit, ")">>))
               [] subcmd = SubClear ->
                    Outcome("ClearConversation", <<>>,
                            <<"Your conversation history has been cleared.">>)
               [] subcmd = SubEnable ->
                    IF Len(subargs) < 1
                    THEN Outcome("none", <<>>, <<"Usage: llm enable <feature>">>)
                    ELSE IF ToLower(subargs[1]) = FeatureSearch
                    THEN Outcome("SetSearchEnabled", TRUE,
                                 <<"Feature search has been enabled for you.">>)
                    ELSE Outcome("none", <<>>, <<"Unknown feature. Available: search">>)
               [] subcmd = SubDisable ->
                    IF Len(subargs) < 1
                    THEN Outcome("none", <<>>, <<"Usage: llm disable <feature>">>)
                    ELSE IF ToLower(subargs[1]) = FeatureSearch
                    THEN Outcome("SetSearchEnabled", FALSE,
                                 <<"Feature search has been disabled for you.">>)
                    ELSE Outcome("none", <<>>, <<"Unknown feature. Available: search">>)
               [] OTHER -> Outcome("none", <<>>, <<"Unknown llm subcommand.">>)

\* the handler registered under name (the lookups answer from outside the
\* process: their text is the name of the lookup)
Handler(name, m, args) ==
    IF name = CmdLlm THEN LlmHandler(m, args)
    ELSE IF name = CmdHelp THEN Outcome("none", <<>>, <<"Commands: ...">>)
    ELSE IF name # CmdRoulette /\ Len(args) < 1
    THEN Outcome("none", <<>>, <<"Usage: ">> \o name)
    ELSE Outcome("none", <<>>, <<"lookup: ">> \o name)

(***************************************************************************)
(* core.Bot: one goroutine per message                                     *)
(***************************************************************************)
\* what a task has done: the calls it made, with what they returned
Event(op, arg) == [op |-> op, arg |-> arg]
Sent(text) == Event("SendText", text)

InFlight(t) == pc[t] \notin {"idle", "done"}

\* the first slot that no task runs in
Free(t) == ~InFlight(t) /\ \A o \in Tasks : o < t => InFlight(o)

\* what the responder's SendText returns
SendErrors == {"nil", "send failed"}

WarningText(err) == <<"Error executing command: ", err>>

KeyOf(m) == GetConversationKey(m.ChatID, m.UserID)

Without(f, k) == [x \in DOMAIN f \ {k} |-> f[x]]

\* the message arrives: what the stores hold for its sender at that moment
Arrives(m) ==
    Event("HandleMessage",
          [msg |-> m, known |-> m.UserID \in DOMAIN users,
           usage |-> GetUserStats(m.UserID).tokens,
           stored |-> GetConversationHistory(m.ChatID, m.UserID)])

Ends(t, events) ==
    /\ trace' = [trace EXCEPT ![t] = events]
    /\ pc' = [pc EXCEPT ![t] = "done"]
    /\ local' = [local EXCEPT ![t] = NoLocal]

\* Execute after which HandleMessage does not return: the message goes on to
\* processText as if CanUseAPI had admitted it
ExecuteGoesOn(t, m, name, args) ==
    LET out == Handler(ToLower(name), m, args)
    IN  /\ \/ /\ out.store = "SetUserAPIKey"
              /\ \E nonce \in Nonces : SetUserAPIKey(m.UserID, out.arg, nonce)
              /\ UNCHANGED <<dirty, conversations, exchanges>>
           \/ /\ out.store = "SetSearchEnabled"
              /\ SetSearchEnabled(m.UserID, out.arg)
              /\ UNCHANGED <<dirty, conversations, exchanges>>
           \/ /\ out.store = "ClearConversation"
              /\ conversations' = ClearConversation(conversations, m.ChatID, m.UserID)
              /\ exchanges' = Without(exchanges, KeyOf(m))
              /\ UNCHANGED creditVars
           \/ /\ out.store = "none"
              /\ UNCHANGED <<creditVars, conversations, exchanges>>
        /\ trace' = [trace EXCEPT ![t] =
                        <<Arrives(m), Event("Execute", ToLower(name)), Sent(out.text)>>]
        /\ pc' = [pc EXCEPT ![t] = "process"]
        /\ local' = [local EXCEPT ![t] =
                        [msg |-> m, prompt |-> <<>>, conversationText |-> <<>>,
                         response |-> <<>>, tokensUsed |-> 0]]

\* CommandRegistry.Execute for a registered name: the handler runs, and a
\* handler that returns an error (its SendText failed) gets a warning sent
Execute(t, m, name, args) ==
    LET out == Handler(ToLower(name), m, args)
    IN  /\ \/ /\ out.store = "SetUserAPIKey"
              /\ \E nonce \in Nonces : SetUserAPIKey(m.UserID, out.arg, nonce)
              /\ UNCHANGED <<dirty, conversations, exchanges>>
           \/ /\ out.store = "SetSearchEnabled"
              /\ SetSearchEnabled(m.UserID, out.arg)
              /\ UNCHANGED <<dirty, conversations, exchanges>>
           \/ /\ out.store = "ClearConversation"
              /\ conversations' = ClearConversation(conversations, m.ChatID, m.UserID)
              /\ exchanges' = Without(exchanges, KeyOf(m))
              /\ UNCHANGED creditVars
           \/ /\ out.store = "none"
              /\ UNCHANGED <<creditVars, conversations, exchanges>>
        /\ \E err \in SendErrors :
              Ends(t, <<Arrives(m), Event("Execute", ToLower(name)),
                        Sent(out.text)>>
                      \o (IF err = "nil" THEN <<>> ELSE <<Sent(WarningText(err))>>))

\* Drop that answers the message it drops
DropAndSend(t, m) ==
    /\ Ends(t, <<Arrives(m), Sent(TroubleText)>>)
    /\ UNCHANGED <<creditVars, conversations, exchanges>>

\* a message that is not addressed to the bot: HandleMessage returns
Drop(t, m) ==
    /\ Ends(t, <<Arrives(m)>>)
    /\ UNCHANGED <<creditVars, conversations, exchanges>>

\* Deny without its return: the limit text is sent and processText runs
DenyAndGoOn(t, m) ==
    /\ trace' = [trace EXCEPT ![t] =
                    <<Arrives(m), Event("CanUseAPI", FALSE), Sent(LimitText)>>]
    /\ pc' = [pc EXCEPT ![t] = "process"]
    /\ local' = [local EXCEPT ![t] =
                    [msg |-> m, prompt |-> <<>>, conversationText |-> <<>>,
                     response |-> <<>>, tokensUsed |-> 0]]
    /\ UNCHANGED <<creditVars, conversations, exchanges>>

\* CanUseAPI is false: the limit text is sent and HandleMessage returns
Deny(t, m) ==
    /\ Ends(t, <<Arrives(m), Event("CanUseAPI", FALSE),
                 Sent(LimitText)>>)
    /\ UNCHANGED <<creditVars, conversations, exchanges>>

\* CanUseAPI is true: processText or processImage runs
Admit(t, m) ==
    /\ trace' = [trace EXCEPT ![t] =
                    <<Arrives(m), Event("CanUseAPI", TRUE)>>]
    /\ pc' = [pc EXCEPT ![t] = "process"]
    /\ local' = [local EXCEPT ![t] =
                    [msg |-> m, prompt |-> <<>>, conversationText |-> <<>>,
                     response |-> <<>>, tokensUsed |-> 0]]
    /\ UNCHANGED <<creditVars, conversations, exchanges>>

\* IsCommand with a lookup that takes the name as it is written
IsCommandExact(m) ==
    LET prefix   == <<"!">> \o ToLower(BotName)
        msgLower == ToLower(m.Content)
        parts    == Fields(m.Content)
    IN  /\ HasPrefix(msgLower, prefix)
        /\ Len(parts) >= 2
        /\ parts[2] \in commands

\* the message starts with the command prefix and names a registered command
IsCommand(m) ==
    LET prefix   == <<"!">> \o ToLower(BotName)
        msgLower == ToLower(m.Content)
        parts    == Fields(m.Content)
    IN  /\ HasPrefix(msgLower, prefix)
        /\ Len(parts) >= 2
        /\ ToLower(parts[2]) \in commands

\* isDirect: the message starts with the command prefix or names the bot
IsDirect(m) ==
    LET prefix   == <<"!">> \o ToLower(BotName)
        msgLower == ToLower(m.Content)
    IN  \/ HasPrefix(msgLower, prefix)
        \/ Contains(msgLower, ToLower(BotName))

\* HandleMessage with the quota gate before the dispatch of commands
HandleMessageGateFirst(t, m) ==
    /\ nMsgs < MaxMsgs
    /\ Free(t)
    /\ nMsgs' = nMsgs + 1
    /\ UNCHANGED <<maxHistory, provider, turns, callVars>>
    /\ LET parts == Fields(m.Content)
       IN  \/ ~IsCommand(m) /\ ~IsDirect(m) /\ Drop(t, m)
           \/ (IsCommand(m) \/ IsDirect(m)) /\ ~CanUseAPI(m.UserID) /\ Deny(t, m)
           \/ /\ IsCommand(m) /\ CanUseAPI(m.UserID)
              /\ Execute(t, m, parts[2], SubSeq(parts, 3, Len(parts)))
           \/ ~IsCommand(m) /\ IsDirect(m) /\ CanUseAPI(m.UserID) /\ Admit(t, m)

\* Bot.HandleMessage up to the call of processText or processImage
HandleMessage(t, m) ==
    /\ nMsgs < MaxMsgs
    /\ Free(t)
    /\ nMsgs' = nMsgs + 1
    /\ UNCHANGED <<maxHistory, provider, turns, callVars>>
    /\ LET parts == Fields(m.Content)
       IN  \/ IsCommand(m) /\ Execute(t, m, parts[2], SubSeq(parts, 3, Len(parts)))
           \/ ~IsCommand(m) /\ ~IsDirect(m) /\ Drop(t, m)
           \/ ~IsCommand(m) /\ IsDirect(m) /\ ~CanUseAPI(m.UserID) /\ Deny(t, m)
           \/ ~IsCommand(m) /\ IsDirect(m) /\ CanUseAPI(m.UserID) /\ Admit(t, m)

\* a step of a task that has been admitted
Step(t, from, to, events, loc) ==
    /\ pc[t] = from
    /\ pc' = [pc EXCEPT ![t] = to]
    /\ trace' = [trace EXCEPT ![t] = @ \o events]
    /\ local' = [local EXCEPT ![t] = loc]
    /\ UNCHANGED <<nMsgs, maxHistory, provider, turns, callVars>>

\* strings.TrimSpace(strings.ReplaceAll(msg.Content, b.Config.Name, ""))
Prompt(m) == TrimSpace(RemoveAll(m.Content, BotName))

\* the prompt with the history before it
ConversationText(history, prompt) ==
    (IF history # <<>> THEN HistoryHeader \o history \o <<"\n", "\n">> ELSE <<>>)
    \o prompt

\* processText / processImage: the prompt and the history are put together
Process(t) ==
    LET m       == local[t].msg
        p       == IF m.IsImage /\ Prompt(m) = <<>> THEN DescribeText ELSE Prompt(m)
        history == GetConversationHistory(m.ChatID, m.UserID)
    IN  /\ pc[t] = "process"
        /\ Step(t, "process", "lookup",
                (IF m.IsImage THEN <<Sent(AnalyzingText)>> ELSE <<>>)
                \o <<Event("GetConversationHistory", history)>>,
                [local[t] EXCEPT !.prompt = p,
                    !.conversationText = ConversationText(history, p)])
        /\ UNCHANGED <<creditVars, conversations, exchanges>>

\* processText / processImage: the key and the search flag are looked up and
\* the request goes to the provider
Generate(t) ==
    LET m == local[t].msg
    IN  /\ pc[t] = "lookup"
        /\ Step(t, "lookup", "wait",
                <<Event(IF m.IsImage THEN "GenerateVision" ELSE "GenerateText",
                        [prompt |-> local[t].conversationText,
                         UserKeyOverride |-> GetUserAPIKey(m.UserID).key,
                         UseSearch |-> IsSearchEnabled(m.UserID)])>>,
                local[t])
        /\ UNCHANGED <<creditVars, conversations, exchanges>>

ExchangesOf(key) == IF key \in DOMAIN exchanges THEN exchanges[key] ELSE <<>>

\* the provider returns a response and a token count
Succeed(t, response, tokens) ==
    LET m == local[t].msg
    IN  /\ pc[t] = "wait"
        /\ Step(t, "wait", "addUser",
                <<Event("Return", [err |-> "nil", response |-> response,
                                   tokens |-> tokens])>>,
                [local[t] EXCEPT !.response = response, !.tokensUsed = tokens])
        /\ exchanges' = Put(exchanges, KeyOf(m),
                            Append(ExchangesOf(KeyOf(m)),
                                   [prompt |-> local[t].prompt, response |-> response]))
        /\ UNCHANGED <<creditVars, conversations>>

\* Fail that tells the user what the error was
FailRelaysError(t, err) ==
    LET m == local[t].msg
    IN  /\ pc[t] = "wait"
        /\ Ends(t, trace[t] \o
                   <<Event("Return", [err |-> err, response |-> <<>>, tokens |-> 0]),
                     Sent(<<"Error: ", err>>)>>)
        /\ UNCHANGED <<creditVars, conversations, exchanges>>
        /\ UNCHANGED <<nMsgs, maxHistory, provider, turns, callVars>>

\* Fail that sends nothing: the error is logged and the task returns
FailSilently(t, err) ==
    LET m == local[t].msg
    IN  /\ pc[t] = "wait"
        /\ Ends(t, trace[t] \o
                   <<Event("Return", [err |-> err, response |-> <<>>, tokens |-> 0])>>)
        /\ UNCHANGED <<creditVars, conversations, exchanges>>
        /\ UNCHANGED <<nMsgs, maxHistory, provider, turns, callVars>>

\* the provider returns an error: the apology is sent and the task returns
Fail(t, err) ==
    LET m == local[t].msg
    IN  /\ pc[t] = "wait"
        /\ Ends(t, trace[t] \o
                   <<Event("Return", [err |-> err, response |-> <<>>, tokens |-> 0]),
                     Sent(IF m.IsImage THEN ImageErrorText ELSE TroubleText)>>)
        /\ UNCHANGED <<creditVars, conversations, exchanges>>
        /\ UNCHANGED <<nMsgs, maxHistory, provider, turns, callVars>>

\* b.Context.AddMessage(msg.ChatID, msg.UserID, "user", prompt)
AddUserTurn(t) ==
    LET m == local[t].msg
    IN  /\ pc[t] = "addUser"
        /\ conversations' =
              AddMessage(conversations, m.ChatID, m.UserID, "user", local[t].prompt)
        /\ Step(t, "addUser", "addBot",
                <<Event("AddMessage", Message("user", local[t].prompt))>>, local[t])
        /\ UNCHANGED <<creditVars, exchanges>>

\* AddBotTurn after which the reply is sent with no usage recorded
AddBotTurnSkipsRecord(t) ==
    LET m == local[t].msg
    IN  /\ pc[t] = "addBot"
        /\ conversations' =
              AddMessage(conversations, m.ChatID, m.UserID, "bot", local[t].response)
        /\ Step(t, "addBot", "send",
                <<Event("AddMessage", Message("bot", local[t].response))>>, local[t])
        /\ UNCHANGED <<creditVars, exchanges>>

\* b.Context.AddMessage(msg.ChatID, msg.UserID, "bot", response)
AddBotTurn(t) ==
    LET m == local[t].msg
    IN  /\ pc[t] = "addBot"
        /\ conversations' =
              AddMessage(conversations, m.ChatID, m.UserID, "bot", local[t].response)
        /\ Step(t, "addBot", "record",
                <<Event("AddMessage", Message("bot", local[t].response))>>, local[t])
        /\ UNCHANGED <<creditVars, exchanges>>

\* b.UserCredits.RecordUsage(msg.UserID, tokensUsed)
Record(t) ==
    /\ pc[t] = "record"
    /\ RecordUsage(local[t].msg.UserID, local[t].tokensUsed)
    /\ Step(t, "record", "send",
            <<Event("RecordUsage", local[t].tokensUsed)>>, local[t])
    /\ UNCHANGED <<conversations, exchanges>>

\* responder.SendText(msg.ChatID, response): what it returns is dropped
Reply(t, err) ==
    /\ pc[t] = "send"
    /\ Ends(t, trace[t] \o <<Sent(local[t].response)>>
               \o (IF err = "nil" THEN <<>> ELSE <<Event("SendError", err)>>))
    /\ UNCHANGED <<creditVars, conversations, exchanges>>
    /\ UNCHANGED <<nMsgs, maxHistory, provider, turns, callVars>>

\* autoSaveLoop's ticker fires while the router runs
AutoSave ==
    /\ dirty
    /\ autoSaveLoop
    /\ UNCHANGED <<ctxVars, taskVars, turns, callVars>>

Init ==
    /\ \E limit \in 0..MaxLimit : NewCreditManager(NoFile, limit)
    /\ ReliableDisk
    /\ \E n \in {0, MaxHist} : NewContextManager(n)
    /\ New("gemini")
    /\ turns = EmptyMap
    /\ NoTasks
    /\ NoCalls

Next ==
    \/ \E t \in Tasks, m \in IncomingMessages : HandleMessage(t, m)
    \/ \E t \in Tasks : Process(t)
    \/ \E t \in Tasks : Generate(t)
    \/ \E t \in Tasks, response \in Responses, tokens \in 0..MaxReport :
          Succeed(t, response, tokens)
    \/ \E t \in Tasks, err \in ProviderErrors : Fail(t, err)
    \/ \E t \in Tasks : AddUserTurn(t)
    \/ \E t \in Tasks : AddBotTurn(t)
    \/ \E t \in Tasks : Record(t)
    \/ \E t \in Tasks, err \in SendErrors : Reply(t, err)
    \/ AutoSave

Spec == Init /\ [][Next]_vars

\* what a task does by itself once HandleMessage has started: everything but
\* the return of the provider call
Runs(t) ==
    \/ Process(t)
    \/ Generate(t)
    \/ AddUserTurn(t)
    \/ AddBotTurn(t)
    \/ Record(t)
    \/ \E err \in SendErrors : Reply(t, err)

\* the router whose goroutines keep running, with a provider that answers
\* when it answers: http.Post and (&http.Client{}).Do have no Timeout and the
\* request has no context, so only the provider's answer ends the call
SpecWait == Init /\ [][Next]_vars /\ \A t \in Tasks : WF_vars(Runs(t))

\* what one user sends that is no command: a text and an image addressed to
\* the bot, an unregistered name after the prefix, and a text for nobody
AnswerMessages ==
    {IncomingMessage(<<"a">>, TextBotHi, FALSE),
     IncomingMessage(<<"a">>, TextBotHi, TRUE),
     IncomingMessage(<<"a">>, TextUnknown, FALSE),
     IncomingMessage(<<"a">>, TextHi, FALSE)}

NextAnswer ==
    \/ \E t \in Tasks, m \in AnswerMessages : HandleMessage(t, m)
    \/ \E t \in Tasks : Process(t)
    \/ \E t \in Tasks : Generate(t)
    \/ \E t \in Tasks, response \in Responses, tokens \in 0..MaxReport :
          Succeed(t, response, tokens)
    \/ \E t \in Tasks, err \in ProviderErrors : Fail(t, err)
    \/ \E t \in Tasks : AddUserTurn(t)
    \/ \E t \in Tasks : AddBotTurn(t)
    \/ \E t \in Tasks : Record(t)
    \/ \E t \in Tasks, err \in SendErrors : Reply(t, err)

\* the router on messages that are no commands, with goroutines that keep
\* running and a provider that answers when it answers
SpecAnswer == Init /\ [][NextAnswer]_vars /\ \A t \in Tasks : WF_vars(Runs(t))

(***************************************************************************)
(* The router on commands, on what looks like a command and on a bare      *)
(* mention, for a user who may have a record in the credit file.           *)
(***************************************************************************)
\* a bare mention: the name of the bot and nothing else
TextBare == BotName
TextSetKeyShort ==
    <<"!", "b", "o", "t", " ", "s", "e", "t", "k", "e", "y", " ", "k", "1">>
TextStatsShort == <<"!", "b", "o", "t", " ", "s", "t", "a", "t", "s">>
TextStats == <<"!", "b", "o", "t", " ", "l", "l", "m", " ", "s", "t", "a", "t", "s">>
TextHelp == <<"!", "B", "O", "T", " ", "H", "e", "l", "p">>

RouteBodies ==
    {TextBare, TextBotHi, TextUnknown, TextSetKeyShort, TextStatsShort,
     TextSetKey, TextStats, TextClear, TextHelp}

RouteMessages == {IncomingMessage(<<"a">>, body, FALSE) : body \in RouteBodies}

InitRoute ==
    /\ \E f \in InitFiles, limit \in 0..MaxLimit : NewCreditManager(f, limit)
    /\ ReliableDisk
    /\ NewContextManager(1)
    /\ New("gemini")
    /\ turns = EmptyMap
    /\ NoTasks
    /\ NoCalls

NextRoute ==
    \/ \E t \in Tasks, m \in RouteMessages : HandleMessage(t, m)
    \/ \E t \in Tasks : Process(t)
    \/ \E t \in Tasks : Generate(t)
    \/ \E t \in Tasks, response \in Responses, tokens \in 0..MaxReport :
          Succeed(t, response, tokens)
    \/ \E t \in Tasks, err \in ProviderErrors : Fail(t, err)
    \/ \E t \in Tasks : AddUserTurn(t)
    \/ \E t \in Tasks : AddBotTurn(t)
    \/ \E t \in Tasks : Record(t)
    \/ \E t \in Tasks, err \in SendErrors : Reply(t, err)
    \/ AutoSave

SpecRoute == InitRoute /\ [][NextRoute]_vars

(***************************************************************************)
(* The router on commands whose arguments are missing, too many or unknown, *)
(* beside commands whose arguments are right.                              *)
(***************************************************************************)
\* commands a handler answers with its usage text
WrongBodies ==
    {
      <<"!", "b", "o", "t", " ", "l", "l", "m">>,
      <<"!", "b", "o", "t", " ", "l", "l", "m", " ", "s", "e", "t", "k", "e", "y">>,
      <<"!", "b", "o", "t", " ", "l", "l", "m", " ", "S", "e", "t", "K", "e", "y", " ",
        "k", "1", " ", "k", "2">>,
      <<"!", "b", "o", "t", " ", "l", "l", "m", " ", "e", "n", "a", "b", "l", "e">>,
      <<"!", "b", "o", "t", " ", "l", "l", "m", " ", "e", "n", "a", "b", "l", "e", " ",
        "f", "o", "o">>,
      <<"!", "b", "o", "t", " ", "l", "l", "m", " ", "d", "i", "s", "a", "b", "l", "e">>,
      <<"!", "b", "o", "t", " ", "l", "l", "m", " ", "D", "i", "s", "a", "b", "l", "e",
        " ", "F", "o", "o">>,
      <<"!", "b", "o", "t", " ", "a", "n", "i", "m", "e">>,
      <<"!", "b", "o", "t", " ", "w", "i", "k", "i">>,
      <<"!", "b", "o", "t", " ", "U", "r", "b", "a", "n">>
    }

\* commands with the arguments their handlers ask for, and a direct message
RightBodies ==
    {TextSetKey, TextEnable, TextClear, TextBotHi,
      <<"!", "b", "o", "t", " ", "a", "n", "i", "m", "e", " ", "x">>,
      <<"!", "b", "o", "t", " ", "r", "o", "u", "l", "e", "t", "t", "e">>
    }

ArgMessages ==
    {IncomingMessage(<<"a">>, body, FALSE) : body \in WrongBodies \cup RightBodies}

NextArgs ==
    \/ \E t \in Tasks, m \in ArgMessages : HandleMessage(t, m)
    \/ \E t \in Tasks : Process(t)
    \/ \E t \in Tasks : Generate(t)
    \/ \E t \in Tasks, response \in Responses, tokens \in 0..MaxReport :
          Succeed(t, response, tokens)
    \/ \E t \in Tasks, err \in ProviderErrors : Fail(t, err)
    \/ \E t \in Tasks : AddUserTurn(t)
    \/ \E t \in Tasks : AddBotTurn(t)
    \/ \E t \in Tasks : Record(t)
    \/ \E t \in Tasks, err \in SendErrors : Reply(t, err)

SpecArgs == InitRoute /\ [][NextArgs]_vars

(***************************************************************************)
(* The router for a user whose record may hold a key, sealed under the     *)
(* master key of the configuration or under the one of an earlier          *)
(* configuration.                                                          *)
(***************************************************************************)
\* the master key of the configuration that wrote the file before a rotation
OldMasterKey == "mk0"

\* the credit files with a key for a: sealed under MasterKey, under OldMasterKey
KeyFiles ==
    { WriteFile(Put(EmptyMap, <<"a">>,
          [NewUserCredit(<<"a">>) EXCEPT !.APIKey = Seal(KeyK1, "n1", mk),
                                         !.Nonce = "n1"])) :
      mk \in {MasterKey, OldMasterKey} }

InitKey ==
    /\ \E f \in InitFiles \cup KeyFiles : NewCreditManager(f, MaxLimit)
    /\ ReliableDisk
    /\ NewContextManager(1)
    /\ New("gemini")
    /\ turns = EmptyMap
    /\ NoTasks
    /\ NoCalls

SpecKey == InitKey /\ [][NextRoute]_vars

\* the messages of a user who chats while the key of that user is being set
MeterMessages == {IncomingMessage(<<"a">>, TextBotHi, FALSE)}

\* the router beside a setkey of the same user: HandleMessage runs in a
\* goroutine of its own, so SetUserAPIKey can run between any two of the
\* store calls of processText
NextMeter ==
    \/ \E t \in Tasks, m \in MeterMessages : HandleMessage(t, m)
    \/ \E t \in Tasks : Process(t)
    \/ \E t \in Tasks : Generate(t)
    \/ \E t \in Tasks, response \in Responses, tokens \in 0..MaxReport :
          Succeed(t, response, tokens)
    \/ \E t \in Tasks, err \in ProviderErrors : Fail(t, err)
    \/ \E t \in Tasks : AddUserTurn(t)
    \/ \E t \in Tasks : AddBotTurn(t)
    \/ \E t \in Tasks : Record(t)
    \/ \E t \in Tasks, err \in SendErrors : Reply(t, err)
    \/ CallSetUserAPIKey(<<"a">>, KeyK1)

SpecMeter == InitKey /\ [][NextMeter]_vars

(***************************************************************************)
(* The goroutines side by side: the adapters start HandleMessage with go,  *)
(* NewCreditManager starts autoSaveLoop with go.  Two messages of one user *)
(* in one room are handled at once, a command task reads the stats and     *)
(* sets the search flag, and the ticker saves.  Every lock operation and   *)
(* every read or write of shared memory between two of them is a step.     *)
(***************************************************************************)
Procs == {"m1", "m2"}
Commander == "cmd"
Ticker == "tick"
Goroutines == Procs \cup {Commander, Ticker}

\* the message goroutine p handles
ParMessage(p) ==
    IncomingMessage(<<"a">>, IF p = "m1" THEN TextBotHi ELSE TextHiBot, FALSE)

\* a Lock that does not wait
LockNoExclusion(g) ==
    /\ mu' = mu \cup {<<g, "w">>}

\* sync.RWMutex: Lock waits until nobody holds the lock
Lock(g) ==
    /\ mu = {}
    /\ mu' = {<<g, "w">>}

Unlock(g) == mu' = mu \ {<<g, "w">>}

\* sync.RWMutex: RLock waits until no writer holds the lock
RLock(g) ==
    /\ \A h \in mu : h[2] # "w"
    /\ mu' = mu \cup {<<g, "r">>}

RUnlock(g) == mu' = mu \ {<<g, "r">>}

\* a step of goroutine g that leaves the shared memory alone but for the lock
Goes(g, from, to, loc) ==
    /\ pc[g] = from
    /\ pc' = [pc EXCEPT ![g] = to]
    /\ local' = [local EXCEPT ![g] = loc]
    /\ UNCHANGED <<maxHistory, provider, exchanges, last, keysSet>>

Quietly == UNCHANGED <<users, dirty, file, globalLimit, faultsLeft, conversations,
                       turns, trace, nMsgs, nOps>>

\* HandleMessage up to the quota gate, for an addressed text that is no
\* command: each goroutine handles the one message it was started with
ParHandle(p) ==
    /\ pc[p] = "idle"
    /\ pc' = [pc EXCEPT ![p] = "canUse"]
    /\ local' = [local EXCEPT ![p] =
                    [msg |-> ParMessage(p), prompt |-> Prompt(ParMessage(p)),
                     response |-> <<>>, tokensUsed |-> 0, msgs |-> <<>>, count |-> 0]]
    /\ nMsgs' = nMsgs + 1
    /\ UNCHANGED <<creditVars, ctxVars, trace, exchanges, turns, callVars>>

\* CanUseAPI: cm.mu.RLock()
ParCanUseLock(p) ==
    /\ Goes(p, "canUse", "canUseR", local[p])
    /\ RLock(p)
    /\ Quietly

\* CanUseAPI: the test, and the deferred cm.mu.RUnlock(); a refused sender
\* gets the limit text and the task returns
ParCanUse(p) ==
    /\ pc[p] = "canUseR"
    /\ IF CanUseAPI(local[p].msg.UserID)
       THEN Goes(p, "canUseR", "history", local[p])
       ELSE Goes(p, "canUseR", "done", NoLocal)
    /\ RUnlock(p)
    /\ Quietly

\* processText: GetConversationHistory, under no lock
ParHistory(p) ==
    /\ Goes(p, "history", "getKey", local[p])
    /\ UNCHANGED mu
    /\ Quietly

\* GetUserAPIKey: cm.mu.RLock()
ParGetKeyLock(p) ==
    /\ Goes(p, "getKey", "getKeyR", local[p])
    /\ RLock(p)
    /\ Quietly

\* GetUserAPIKey: the lookup, and the deferred cm.mu.RUnlock()
ParGetKey(p) ==
    /\ Goes(p, "getKeyR", "search", local[p])
    /\ RUnlock(p)
    /\ Quietly

\* IsSearchEnabled: cm.mu.RLock()
ParSearchLock(p) ==
    /\ Goes(p, "search", "searchR", local[p])
    /\ RLock(p)
    /\ Quietly

\* IsSearchEnabled that returns with the lock still held
ParSearchNoUnlock(p) ==
    /\ Goes(p, "searchR", "wait", local[p])
    /\ UNCHANGED mu
    /\ Quietly

\* IsSearchEnabled: the lookup, and the deferred cm.mu.RUnlock(); then the
\* request goes to the provider
ParSearch(p) ==
    /\ Goes(p, "searchR", "wait", local[p])
    /\ RUnlock(p)
    /\ Quietly

\* the provider returns a response and a token count
ParSucceed(p, response, tokens) ==
    /\ Goes(p, "wait", "addUser",
            [local[p] EXCEPT !.response = response, !.tokensUsed = tokens])
    /\ UNCHANGED mu
    /\ Quietly

\* the provider returns an error: the apology is sent and the task returns
ParFail(p) ==
    /\ Goes(p, "wait", "done", NoLocal)
    /\ UNCHANGED mu
    /\ Quietly

\* AddMessage, first half: the conversation is made if it is not there and
\* conv.Messages is read
ParAddRead(p, from, to) ==
    LET m   == local[p].msg
        key == KeyOf(m)
    IN  /\ Goes(p, from, to, [local[p] EXCEPT !.msgs = Stored(key)])
        /\ conversations' =
              IF key \in DOMAIN conversations THEN conversations
              ELSE Put(conversations, key,
                       [Messages |-> <<>>, MaxHistory |-> maxHistory])
        /\ UNCHANGED <<creditVars, turns, trace, nMsgs, nOps>>

\* AddMessage, second half: the appended and truncated slice is written to
\* conv.Messages
ParAddWrite(p, from, to, role, content) ==
    LET m    == local[p].msg
        key  == KeyOf(m)
        msgs == Append(local[p].msgs, Message(role, content))
    IN  /\ Goes(p, from, to, [local[p] EXCEPT !.msgs = <<>>])
        /\ conversations' =
              Put(conversations, key,
                  [Messages |-> IF Len(msgs) > maxHistory * 2
                                THEN LastN(msgs, maxHistory * 2)
                                ELSE msgs,
                   MaxHistory |-> maxHistory])
        /\ turns' = Put(turns, key, Append(TurnsOf(key), Message(role, content)))
        /\ UNCHANGED <<creditVars, trace, nMsgs, nOps>>

\* RecordUsage: cm.mu.Lock()
ParRecordLock(p) ==
    /\ Goes(p, "record", "recLoad", local[p])
    /\ Lock(p)
    /\ Quietly

\* RecordUsage: the record is made if it is not there, and user.TokenCount
\* is loaded
ParRecordLoad(p) ==
    LET u  == local[p].msg.UserID
        us == WithUser(users, u)
    IN  /\ Goes(p, "recLoad", "recStore", [local[p] EXCEPT !.count = us[u].TokenCount])
        /\ users' = us
        /\ UNCHANGED <<dirty, file, globalLimit, mu, faultsLeft, conversations,
                       turns, trace, nMsgs, nOps>>

\* RecordUsage: user.TokenCount is stored, when the user has no key
ParRecordStore(p) ==
    LET u == local[p].msg.UserID
    IN  /\ Goes(p, "recStore", "recDirty", local[p])
        /\ users' = IF users[u].APIKey.isNil
                    THEN [users EXCEPT ![u].TokenCount =
                             local[p].count + local[p].tokensUsed]
                    ELSE users
        /\ trace' = [trace EXCEPT ![p] =
                        Append(@, Event("RecordUsage", local[p].tokensUsed))]
        /\ UNCHANGED <<dirty, file, globalLimit, mu, faultsLeft, conversations,
                       turns, nMsgs, nOps>>

\* RecordUsage: cm.dirty = true, and the deferred cm.mu.Unlock()
ParRecordDirty(p) ==
    /\ Goes(p, "recDirty", "send", local[p])
    /\ dirty' = TRUE
    /\ Unlock(p)
    /\ UNCHANGED <<users, file, globalLimit, faultsLeft, conversations, turns,
                   trace, nMsgs, nOps>>

\* responder.SendText(msg.ChatID, response)
ParReply(p) ==
    /\ Goes(p, "send", "done", NoLocal)
    /\ UNCHANGED mu
    /\ Quietly

\* a panic that is recovered with the locks of the task still held
ParPanicKeepsLock(p) ==
    /\ pc[p] \notin {"idle", "done"}
    /\ Goes(p, pc[p], "done", NoLocal)
    /\ trace' = [trace EXCEPT ![p] = Append(@, Event("recover", "PANIC in HandleMessage"))]
    /\ UNCHANGED <<users, dirty, file, globalLimit, mu, faultsLeft, conversations,
                   turns, nMsgs, nOps>>

\* a panic somewhere in the task: the deferred Unlock or RUnlock of the
\* method it is in runs, the deferred recover of HandleMessage logs the panic
\* and the task returns
ParPanic(p) ==
    /\ pc[p] \notin {"idle", "done"}
    /\ Goes(p, pc[p], "done", NoLocal)
    /\ mu' = {h \in mu : h[1] # p}
    /\ trace' = [trace EXCEPT ![p] = Append(@, Event("recover", "PANIC in HandleMessage"))]
    /\ UNCHANGED <<users, dirty, file, globalLimit, faultsLeft, conversations,
                   turns, nMsgs, nOps>>

\* autoSaveLoop: the ticker fires, cm.mu.Lock()
TickLock ==
    /\ Goes(Ticker, "idle", "save", local[Ticker])
    /\ Lock(Ticker)
    /\ Quietly

\* autoSaveLoop: the file is written if cm.dirty
TickSave ==
    /\ Goes(Ticker, "save", "unlock", local[Ticker])
    /\ autoSaveLoop
    /\ UNCHANGED <<conversations, turns, trace, nMsgs, nOps>>

\* autoSaveLoop: cm.mu.Unlock()
TickUnlock ==
    /\ Goes(Ticker, "unlock", "idle", local[Ticker])
    /\ Unlock(Ticker)
    /\ Quietly

\* the stats command: GetUserStats takes cm.mu.RLock()
StatsLock ==
    /\ nOps < MaxOps
    /\ nOps' = nOps + 1
    /\ Goes(Commander, "idle", "statsR", local[Commander])
    /\ RLock(Commander)
    /\ UNCHANGED <<users, dirty, file, globalLimit, faultsLeft, conversations,
                   turns, trace, nMsgs>>

\* GetUserStats: the lookup, and the deferred cm.mu.RUnlock()
StatsRead ==
    /\ Goes(Commander, "statsR", "idle", local[Commander])
    /\ RUnlock(Commander)
    /\ Quietly

\* the enable / disable command: SetSearchEnabled takes cm.mu.Lock()
SearchLock ==
    /\ nOps < MaxOps
    /\ nOps' = nOps + 1
    /\ Goes(Commander, "idle", "setW", local[Commander])
    /\ Lock(Commander)
    /\ UNCHANGED <<users, dirty, file, globalLimit, faultsLeft, conversations,
                   turns, trace, nMsgs>>

\* SetSearchEnabled: the flag is set and the file is written
SearchWrite(enabled) ==
    /\ Goes(Commander, "setW", "setU", local[Commander])
    /\ SetSearchEnabled(<<"a">>, enabled)
    /\ UNCHANGED <<conversations, turns, trace, nMsgs, nOps>>

\* SetSearchEnabled: the deferred cm.mu.Unlock()
SearchUnlock ==
    /\ Goes(Commander, "setU", "idle", local[Commander])
    /\ Unlock(Commander)
    /\ Quietly

\* the loaded map is kept in last: what the store held when the process began
InitPar ==
    /\ \E f \in InitFiles : NewCreditManager(f, MaxLimit)
    /\ ReliableDisk
    /\ NewContextManager(MaxHist)
    /\ New("gemini")
    /\ turns = EmptyMap
    /\ pc = [g \in Goroutines |-> "idle"]
    /\ local = [g \in Goroutines |-> NoLocal]
    /\ trace = [g \in Goroutines |-> <<>>]
    /\ nMsgs = 0
    /\ exchanges = EmptyMap
    /\ last = [op |-> "NewCreditManager", users |-> users]
    /\ keysSet = EmptyMap
    /\ nOps = 0

NextPar ==
    \/ \E p \in Procs : ParHandle(p)
    \/ \E p \in Procs : ParCanUseLock(p)
    \/ \E p \in Procs : ParCanUse(p)
    \/ \E p \in Procs : ParHistory(p)
    \/ \E p \in Procs : ParGetKeyLock(p)
    \/ \E p \in Procs : ParGetKey(p)
    \/ \E p \in Procs : ParSearchLock(p)
    \/ \E p \in Procs : ParSearch(p)
    \/ \E p \in Procs, response \in Responses, tokens \in 1..MaxReport :
          ParSucceed(p, response, tokens)
    \/ \E p \in Procs : ParFail(p)
    \/ \E p \in Procs : ParAddRead(p, "addUser", "addUserW")
    \/ \E p \in Procs : ParAddWrite(p, "addUserW", "addBot", "user", local[p].prompt)
    \/ \E p \in Procs : ParAddRead(p, "addBot", "addBotW")
    \/ \E p \in Procs : ParAddWrite(p, "addBotW", "record", "bot", local[p].response)
    \/ \E p \in Procs : ParRecordLock(p)
    \/ \E p \in Procs : ParRecordLoad(p)
    \/ \E p \in Procs : ParRecordStore(p)
    \/ \E p \in Procs : ParRecordDirty(p)
    \/ \E p \in Procs : ParReply(p)
    \/ \E p \in Procs : ParPanic(p)
    \/ TickLock
    \/ TickSave
    \/ TickUnlock
    \/ StatsLock
    \/ StatsRead
    \/ SearchLock
    \/ \E enabled \in BOOLEAN : SearchWrite(enabled)
    \/ SearchUnlock

SpecPar == InitPar /\ [][NextPar]_vars

(***************************************************************************)
(* The credit store and its file over the life of the process: writes of   *)
(* the file may fail, the process may stop at any moment and start again,  *)
(* and the ticker of autoSaveLoop keeps firing while the process runs.     *)
(***************************************************************************)
InitSave ==
    /\ \E f \in InitFiles : NewCreditManager(f, MaxLimit)
    /\ faultsLeft \in 0..MaxFaults
    /\ NewContextManager(1)
    /\ New("gemini")
    /\ turns = EmptyMap
    /\ NoTasks
    /\ NoCalls

\* the process stops and starts again: NewCreditManager reads the file
Restart ==
    /\ users' = loadFromFile(file)
    /\ dirty' = FALSE
    /\ mu' = {}
    /\ UNCHANGED <<file, globalLimit, faultsLeft, keysSet>>
    /\ Called([op |-> "Restart", before |-> last, held |-> users])

\* the file os.WriteFile has opened with O_TRUNC and not written to its end:
\* json.Unmarshal returns an error for it and cm.users stays the empty map
TruncatedFile == [exists |-> TRUE, data |-> EmptyMap]

\* the process stops inside os.WriteFile, during SetUserAPIKey,
\* SetSearchEnabled, a tick or ForceSave, and starts again
CrashInWrite ==
    /\ file' = TruncatedFile
    /\ users' = loadFromFile(TruncatedFile)
    /\ dirty' = FALSE
    /\ mu' = {}
    /\ UNCHANGED <<globalLimit, faultsLeft, keysSet>>
    /\ Called([op |-> "CrashInWrite", before |-> last, held |-> users])

NextSave ==
    \/ \E u \in UserIDs : CallSetUserAPIKey(u, KeyK1)
    \/ \E u \in UserIDs : CallGetUserAPIKey(u)
    \/ \E u \in UserIDs, n \in 0..MaxReport : CallRecordUsage(u, n)
    \/ \E u \in UserIDs, b \in BOOLEAN : CallSetSearchEnabled(u, b)
    \/ Tick
    \/ CallForceSave
    \/ Restart
    \/ CrashInWrite

\* time.NewTicker: while the process runs the ticker fires again and again
SpecSave == InitSave /\ [][NextSave]_vars /\ WF_vars(Tick)

(***************************************************************************)
(* The provider under calls from several goroutines: each caller calls     *)
(* GenerateText or GenerateVision again and again, with a key of its own   *)
(* or with none, and the vendor answers each request when it does.         *)
(***************************************************************************)
Callers == {"c1", "c2"}

\* the providers llm.New makes: GeminiProvider and OpenAIProvider
ProviderIDs == {"gemini", "openai"}

KeyK2 == <<"k", "2">>

\* RequestConfig: the fields the providers read
RequestConfig(system, override) ==
    [SystemPrompt |-> system, UserKeyOverride |-> override]

\* the configurations a caller passes: each caller has a key of its own
RequestConfigs(c) ==
    {RequestConfig(system, override) :
        system \in {<<>>, <<"B", "e">>},
        override \in {<<>>, IF c = "c1" THEN KeyK1 ELSE KeyK2}}

CallPrompts == {TextHi, <<"h", "e", "l", "l", "o">>}

\* what the vendor answers: a text with the usage metadata (0 when the
\* response carries none) or a failure
VendorAnswers ==
    {[ok |-> TRUE, text |-> r, TotalTokenCount |-> n] :
        r \in Responses, n \in 0..MaxReport}
    \cup {[ok |-> FALSE, text |-> <<>>, TotalTokenCount |-> 0]}

\* a call begins: the caller's locals are the key and the text of the request
Begins(c, prompt, image, cfg, key, text) ==
    /\ pc[c] = "idle"
    /\ nOps < MaxOps
    /\ pc' = [pc EXCEPT ![c] = "post"]
    /\ local' = [local EXCEPT ![c] = [apiKey |-> key, text |-> text]]
    /\ trace' = [trace EXCEPT ![c] =
                    <<Event("Call", [prompt |-> prompt, image |-> image, cfg |-> cfg])>>]
    /\ nOps' = nOps + 1
    /\ UNCHANGED <<creditVars, conversations, maxHistory, nMsgs, exchanges, turns,
                   last, keysSet>>

\* generateInternal that stores the override in the provider
generateInternalSharedKey(c, prompt, image, cfg) ==
    LET shared == IF cfg.UserKeyOverride # <<>> THEN cfg.UserKeyOverride
                  ELSE provider.APIKey
    IN  /\ provider.ID = "gemini"
        /\ provider' = [provider EXCEPT !.APIKey = shared]
        /\ Begins(c, prompt, image, cfg, shared,
                  cfg.SystemPrompt \o <<"\n", "\n">> \o prompt)

\* GeminiProvider.generateInternal up to the request: apiKey is g.APIKey or
\* the override, fullPrompt is the system prompt, two newlines and the prompt
generateInternal(c, prompt, image, cfg) ==
    /\ provider.ID = "gemini"
    /\ Begins(c, prompt, image, cfg,
              IF cfg.UserKeyOverride # <<>> THEN cfg.UserKeyOverride
              ELSE provider.APIKey,
              cfg.SystemPrompt \o <<"\n", "\n">> \o prompt)
    /\ UNCHANGED provider

\* OpenAIProvider.GenerateText up to the request: apiKey is o.APIKey or the
\* override, the prompt is the content of the user message
GenerateText(c, prompt, cfg) ==
    /\ provider.ID = "openai"
    /\ Begins(c, prompt, FALSE, cfg,
              IF cfg.UserKeyOverride # <<>> THEN cfg.UserKeyOverride
              ELSE provider.APIKey,
              prompt)
    /\ UNCHANGED provider

\* what a call returns
Returns(text, tokens, err) == [text |-> text, tokens |-> tokens, err |-> err]

\* OpenAIProvider.GenerateVision: no request is made
GenerateVision(c, prompt, cfg) ==
    /\ provider.ID = "openai"
    /\ pc[c] = "idle"
    /\ nOps < MaxOps
    /\ trace' = [trace EXCEPT ![c] =
                    <<Event("Call", [prompt |-> prompt, image |-> TRUE, cfg |-> cfg]),
                      Event("Return",
                            [answer |-> [ok |-> TRUE, text |-> <<>>, TotalTokenCount |-> 0],
                             result |-> Returns(<<"OpenAI Vision Not Implemented Yet">>,
                                                0, "nil")])>>]
    /\ nOps' = nOps + 1
    /\ UNCHANGED <<creditVars, ctxVars, pc, local, nMsgs, exchanges, turns, last, keysSet>>

\* http.Post / client.Do: the request leaves with the key the call chose
Post(c) ==
    /\ pc[c] = "post"
    /\ pc' = [pc EXCEPT ![c] = "wait"]
    /\ trace' = [trace EXCEPT ![c] =
                    Append(@, Event("POST", [key |-> local[c].apiKey,
                                             text |-> local[c].text]))]
    /\ UNCHANGED <<creditVars, ctxVars, local, nMsgs, exchanges, turns, callVars>>

\* GeminiProvider.generateInternal after the response: the vendor's total,
\* or a quarter of the length of fullPrompt when the total is not above 0
geminiReturns(answer, fullPrompt) ==
    IF answer.ok
    THEN Returns(answer.text,
                 IF answer.TotalTokenCount > 0 THEN answer.TotalTokenCount
                 ELSE Len(fullPrompt) \div 4,
                 "nil")
    ELSE Returns(<<>>, 0, "API connection failed")

\* OpenAIProvider.GenerateText after the response: result.Usage.TotalTokens
openAIReturns(answer) ==
    IF answer.ok
    THEN Returns(answer.text, answer.TotalTokenCount, "nil")
    ELSE Returns(<<>>, 0, "OpenAI Error")

\* the vendor answers and the call returns
Answers(c, answer) ==
    /\ pc[c] = "wait"
    /\ pc' = [pc EXCEPT ![c] = "idle"]
    /\ local' = [local EXCEPT ![c] = NoLocal]
    /\ trace' = [trace EXCEPT ![c] =
                    Append(@, Event("Return",
                                    [answer |-> answer,
                                     result |-> IF provider.ID = "gemini"
                                                THEN geminiReturns(answer, local[c].text)
                                                ELSE openAIReturns(answer)]))]
    /\ UNCHANGED <<creditVars, ctxVars, nMsgs, exchanges, turns, callVars>>

InitProvider ==
    /\ NewCreditManager(NoFile, MaxLimit)
    /\ ReliableDisk
    /\ conversations = EmptyMap
    /\ maxHistory = 1
    /\ \E id \in ProviderIDs : New(id)
    /\ turns = EmptyMap
    /\ pc = [c \in Callers |-> "idle"]
    /\ local = [c \in Callers |-> NoLocal]
    /\ trace = [c \in Callers |-> <<>>]
    /\ nMsgs = 0
    /\ exchanges = EmptyMap
    /\ NoCalls

NextProvider ==
    \/ \E c \in Callers, prompt \in CallPrompts, image \in BOOLEAN :
          \E cfg \in RequestConfigs(c) : generateInternal(c, prompt, image, cfg)
    \/ \E c \in Callers, prompt \in CallPrompts :
          \E cfg \in RequestConfigs(c) : GenerateText(c, prompt, cfg)
    \/ \E c \in Callers, prompt \in CallPrompts :
          \E cfg \in RequestConfigs(c) : GenerateVision(c, prompt, cfg)
    \/ \E c \in Callers : Post(c)
    \/ \E c \in Callers, answer \in VendorAnswers : Answers(c, answer)

SpecProvider == InitProvider /\ [][NextProvider]_vars

(***************************************************************************)
(* Properties of the context store                                         *)
(***************************************************************************)
Min(a, b) == IF a < b THEN a ELSE b

\* C3: for every key, after any sequence of AddMessage calls, at most
\* 2 * maxHistory turns are stored, and they are the newest of the turns
\* appended since the key was last cleared: the evicted turns are the oldest.
TheoremC3 ==
    \A key \in DOMAIN conversations \cup DOMAIN turns :
        /\ Len(Stored(key)) <= 2 * maxHistory
        /\ Stored(key) =
              LastN(TurnsOf(key), Min(Len(TurnsOf(key)), 2 * maxHistory))

\* an AddMessage has evicted turns of a key that keeps some
WitnessC3 ==
    /\ last.op = "AddMessage"
    /\ maxHistory >= 1
    /\ \E key \in DOMAIN conversations :
          /\ Len(TurnsOf(key)) > 2 * maxHistory
          /\ Len(Stored(key)) = 2 * maxHistory

(***************************************************************************)
(* Properties of the credit store                                          *)
(***************************************************************************)
HasKey(u) == u \in DOMAIN users /\ ~users[u].APIKey.isNil

\* the cumulative usage of a user; a user with no record has used nothing
Usage(u) == IF u \in DOMAIN users THEN users[u].TokenCount ELSE 0

\* C5: no step of the store, RecordUsage included, changes the token count
\* of a user who has a personal key on record.
TheoremC5 ==
    [][\A u \in UserIDs : HasKey(u) => users'[u].TokenCount = users[u].TokenCount]_vars

\* RecordUsage was called with tokens for a user who had a personal key
WitnessC5 ==
    /\ last.op = "RecordUsage"
    /\ last.tokens > 0
    /\ last.before.hasOwnKey
    /\ users[last.user].TokenCount = last.before.tokens

\* C6: for a user without a personal key, CanUseAPI is false exactly when
\* the user's cumulative usage is at least the global limit, for a user with
\* no record (usage 0) and for every global limit too.
CounterC6 ==
    last.op = "CanUseAPI" /\ ~HasKey(last.user) =>
        (last.result <=> Usage(last.user) < globalLimit)

\* C7: CanUseAPI is true for every user with a personal key on record,
\* whatever the token count and the global limit.
TheoremC7 ==
    /\ \A u \in UserIDs : HasKey(u) => CanUseAPI(u)
    /\ last.op = "CanUseAPI" /\ HasKey(last.user) => last.result

\* CanUseAPI was called for a user with a key and a usage over the limit
WitnessC7 ==
    /\ last.op = "CanUseAPI"
    /\ HasKey(last.user)
    /\ users[last.user].TokenCount > 0
    /\ users[last.user].TokenCount >= globalLimit
    /\ last.result

\* C8: GetUserAPIKey(u) returns, with no error, the key of the last
\* SetUserAPIKey(u, k), also when u had another key before.
TheoremC8 ==
    last.op = "GetUserAPIKey" /\ KeysOf(last.user) # <<>> =>
        last.result = [key |-> KeysOf(last.user)[Len(KeysOf(last.user))],
                       err |-> "nil"]

\* GetUserAPIKey was called for a user whose key had been replaced by another
WitnessC8 ==
    /\ last.op = "GetUserAPIKey"
    /\ Len(KeysOf(last.user)) >= 2
    /\ KeysOf(last.user)[1] # KeysOf(last.user)[2]
    /\ last.result.err = "nil"

(***************************************************************************)
(* Properties of the router                                                *)
(***************************************************************************)
\* the message is addressed to the bot: its lower-cased body starts with "!"
\* and the bot's name, or has the bot's name in it
AddressedTo(m) ==
    LET body == ToLower(m.Content)
        name == ToLower(BotName)
    IN  HasPrefix(body, <<"!">> \o name) \/ Contains(body, name)

\* the step in which HandleMessage receives m in slot t
Handles(t, m) ==
    /\ nMsgs' = nMsgs + 1
    /\ Free(t)
    /\ trace'[t] # <<>>
    /\ trace'[t][1].op = "HandleMessage"
    /\ trace'[t][1].arg.msg = m

\* what the stores hold now for the sender of the message of a trace
SenderNow(tr) ==
    LET m == tr[1].arg.msg
    IN  [usage |-> Usage(m.UserID),
         stored |-> GetConversationHistory(m.ChatID, m.UserID)]

\* what the stores held for the sender when the message arrived
SenderThen(tr) == [usage |-> tr[1].arg.usage, stored |-> tr[1].arg.stored]

\* C1: when HandleMessage receives an addressed message that is no command
\* from a sender for whom CanUseAPI is false, it sends the limit text and
\* nothing else and returns: no provider call, and the conversations and the
\* users' records stay as they were.
TheoremC1 ==
    [][\A t \in Tasks, m \in IncomingMessages :
          Handles(t, m) /\ AddressedTo(m) /\ ~IsCommand(m) /\ ~CanUseAPI(m.UserID)
          => /\ Tail(trace'[t]) = <<Event("CanUseAPI", FALSE), Sent(LimitText)>>
             /\ pc'[t] = "done"
             /\ conversations' = conversations
             /\ users' = users]_vars

\* a sender with a history and a usage at the limit has been refused
WitnessC1 ==
    \E t \in Tasks :
        /\ pc[t] = "done"
        /\ Len(trace[t]) = 3
        /\ trace[t][2] = Event("CanUseAPI", FALSE)
        /\ trace[t][3] = Sent(LimitText)
        /\ globalLimit > 0
        /\ trace[t][1].arg.usage = globalLimit
        /\ trace[t][1].arg.stored # <<>>
        /\ SenderNow(trace[t]) = SenderThen(trace[t])

\* the apology of the path the message took
Apology(m) == IF m.IsImage THEN ImageErrorText ELSE TroubleText

\* C2: while a task waits for the provider the conversations and the users'
\* records stay as they are, and when the provider returns an error, whatever
\* the error, the task sends the apology of its path and nothing else and
\* returns.
TheoremC2 ==
    [][\A t \in Tasks :
          pc[t] = "wait" =>
             /\ conversations' = conversations
             /\ users' = users
             /\ LET n   == Len(trace[t])
                    ret == trace'[t][n + 1]
                IN  pc'[t] # "wait" /\ ret.arg.err # "nil" =>
                       /\ ret.op = "Return"
                       /\ trace'[t] =
                             trace[t] \o <<ret, Sent(Apology(trace[t][1].arg.msg))>>
                       /\ pc'[t] = "done"]_vars

\* a safety block has been answered to a sender with a history and a usage
WitnessC2 ==
    \E t \in Tasks :
        /\ pc[t] = "done"
        /\ Len(trace[t]) >= 2
        /\ trace[t][Len(trace[t]) - 1].op = "Return"
        /\ trace[t][Len(trace[t]) - 1].arg.err = "blocked by safety settings"
        /\ trace[t][Len(trace[t])] = Sent(TroubleText)
        /\ trace[t][1].arg.usage > 0
        /\ trace[t][1].arg.stored # <<>>
        /\ SenderNow(trace[t]) = SenderThen(trace[t])

\* no task is in flight
Quiet == \A t \in Tasks : ~InFlight(t)

\* the contents of the turns of a sequence of exchanges, in the order of time
ContentsOfExchanges(xs) ==
    [i \in 1..(2 * Len(xs)) |->
        IF i % 2 = 1 THEN xs[(i + 1) \div 2].prompt ELSE xs[i \div 2].response]

ContentsOf(msgs) == [i \in 1..Len(msgs) |-> msgs[i].Content]

IsOrdered(e) ==
    \/ e.op \in {"CanUseAPI", "GenerateText", "GenerateVision", "AddMessage",
                 "RecordUsage"}
    \/ e.op = "SendText" /\ e.arg # AnalyzingText

IsReturn(e) == e.op = "Return"

\* C9: of a task whose provider call succeeds, the ordered events are the
\* quota check, the provider call, the append of the user turn, the append of
\* the reply, RecordUsage with the reported tokens and the send of the reply,
\* in that order; and when the sender had no record and no history, the
\* provider is asked with the prompt alone, two turns are appended and the
\* usage is the reported count.
TheoremC9 ==
    \A t \in Tasks :
        LET tr   == trace[t]
            rets == SelectSeq(tr, IsReturn)
            evs  == SelectSeq(tr, IsOrdered)
            n    == Len(evs)
        IN  rets # <<>> /\ rets[1].arg.err = "nil" =>
               LET m   == tr[1].arg.msg
                   ret == rets[1].arg
               IN  /\ 2 <= n /\ n <= 6
                   /\ evs[1] = Event("CanUseAPI", TRUE)
                   /\ evs[2].op = (IF m.IsImage THEN "GenerateVision" ELSE "GenerateText")
                   /\ n >= 3 => evs[3].op = "AddMessage" /\ evs[3].arg.Role = "user"
                   /\ n >= 4 => evs[4].op = "AddMessage" /\ evs[4].arg.Content = ret.response
                   /\ n >= 5 => evs[5] = Event("RecordUsage", ret.tokens)
                   /\ n >= 6 => evs[6] = Sent(ret.response)
                   /\ pc[t] = "done" => n = 6
                   /\ pc[t] = "done" /\ ~tr[1].arg.known /\ tr[1].arg.stored = <<>> =>
                         /\ evs[2].arg.prompt = evs[3].arg.Content
                         /\ ContentsOf(Stored(KeyOf(m))) =
                               LastN(<<evs[3].arg.Content, ret.response>>,
                                     Min(2, 2 * maxHistory))
                         /\ Usage(m.UserID) = ret.tokens

\* a sender with no record and no history has been answered, with tokens used
WitnessC9 ==
    \E t \in Tasks :
        /\ pc[t] = "done"
        /\ Len(trace[t]) >= 9
        /\ trace[t][Len(trace[t])].op = "SendText"
        /\ trace[t][Len(trace[t]) - 1] = Event("RecordUsage", 1)
        /\ globalLimit > 0
        /\ ~trace[t][1].arg.known
        /\ trace[t][1].arg.stored = <<>>
        /\ Len(Stored(KeyOf(trace[t][1].arg.msg))) = 2
        /\ Usage(trace[t][1].arg.msg.UserID) = 1

\* C10: when HandleMessage receives a message that is not addressed to the
\* bot it calls nothing and returns: no send, no provider call, and the
\* conversations and the credit store stay as they were.
TheoremC10 ==
    [][\A t \in Tasks, m \in IncomingMessages :
          Handles(t, m) /\ ~AddressedTo(m)
          => /\ trace'[t] = <<trace'[t][1]>>
             /\ pc'[t] = "done"
             /\ conversations' = conversations
             /\ UNCHANGED creditVars]_vars

\* a message not addressed to the bot has been dropped while the stores held
\* a history and a record
WitnessC10 ==
    \E t \in Tasks :
        /\ pc[t] = "done"
        /\ Len(trace[t]) = 1
        /\ ~AddressedTo(trace[t][1].arg.msg)
        /\ DOMAIN users # {}
        /\ \E key \in DOMAIN conversations : Stored(key) # <<>>

(***************************************************************************)
(* Properties of the router on commands                                    *)
(***************************************************************************)
\* the message starts with the command prefix and has a second token
LooksLikeCommand(m) ==
    /\ HasPrefix(ToLower(m.Content), <<"!">> \o ToLower(BotName))
    /\ Len(Fields(m.Content)) >= 2

\* the names RegisterDefaultCommands passes to Register
RegisteredNames == {CmdHelp, CmdLlm} \cup LookupCommands

\* a handler is registered under some casing of the name
Registered(name) == \E r \in RegisteredNames : ToLower(r) = ToLower(name)

IsProviderCall(e) == e.op \in {"GenerateText", "GenerateVision"}
IsSend(e) == e.op = "SendText"
IsExecute(e) == e.op = "Execute"
IsWrite(e) == e.op \in {"AddMessage", "RecordUsage"}

\* C11: a task whose message starts with the command prefix and has a second
\* token that is no registered name makes no provider call, appends no turn
\* and records no usage, and when it is done it has sent a reply.
CounterC11 ==
    \A t \in Tasks :
        trace[t] # <<>> /\ LooksLikeCommand(trace[t][1].arg.msg)
        /\ ~Registered(Fields(trace[t][1].arg.msg.Content)[2])
        => /\ SelectSeq(trace[t], IsProviderCall) = <<>>
           /\ SelectSeq(trace[t], IsWrite) = <<>>
           /\ pc[t] = "done" => SelectSeq(trace[t], IsSend) # <<>>

\* C12: a task whose message is the name of the bot after "!", then setkey,
\* then a key, makes no provider call, and when it is done the credit store
\* holds a personal key for the sender, with the token count the sender had.
CounterC12 ==
    \A t \in Tasks :
        trace[t] # <<>> /\ trace[t][1].arg.msg.Content = TextSetKeyShort
        => /\ SelectSeq(trace[t], IsProviderCall) = <<>>
           /\ pc[t] = "done" =>
                 /\ HasKey(trace[t][1].arg.msg.UserID)
                 /\ Usage(trace[t][1].arg.msg.UserID) = trace[t][1].arg.usage

CounterC14 ==
    \A t \in Tasks :
        trace[t] # <<>> /\ ~trace[t][1].arg.msg.IsImage
        /\ AddressedTo(trace[t][1].arg.msg)
        /\ TrimSpace(RemoveAll(trace[t][1].arg.msg.Content, BotName)) = <<>>
        => /\ SelectSeq(trace[t], IsProviderCall) = <<>>
           /\ SelectSeq(trace[t], IsSend) = <<>>
           /\ SelectSeq(trace[t], IsWrite) = <<>>

(***************************************************************************)
(* C15: history and usage are recorded only for a call that succeeded and  *)
(* whose reply the responder delivered: a task that has returned has       *)
(* appended turns or recorded usage only if its provider call returned no  *)
(* error and its SendText of the reply returned no error.                  *)
(***************************************************************************)
IsSendError(e) == e.op = "SendError"
IsSuccess(e) == e.op = "Return" /\ e.arg.err = "nil"

CounterC15 ==
    \A t \in Tasks :
        pc[t] = "done" /\ globalLimit > 0 /\ SelectSeq(trace[t], IsWrite) # <<>>
        => /\ SelectSeq(trace[t], IsSuccess) # <<>>
           /\ SelectSeq(trace[t], IsSendError) = <<>>

(***************************************************************************)
(* Properties of the goroutines side by side                               *)
(***************************************************************************)
\* where a goroutine is between Lock and Unlock, between RLock and RUnlock
WriteSection == {"recLoad", "recStore", "recDirty", "setW", "setU", "save", "unlock"}
ReadSection == {"canUseR", "getKeyR", "searchR", "statsR"}

\* the tokens of the RecordUsage calls of a trace
RECURSIVE TokensIn(_)
TokensIn(tr) ==
    IF tr = <<>> THEN 0
    ELSE (IF Head(tr).op = "RecordUsage" THEN Head(tr).arg ELSE 0)
         + TokensIn(Tail(tr))

\* the tokens of the RecordUsage calls of a set of goroutines
RECURSIVE Recorded(_)
Recorded(S) ==
    IF S = {} THEN 0
    ELSE LET g == CHOOSE x \in S : TRUE
         IN  TokensIn(trace[g]) + Recorded(S \ {g})

\* the count of a user in the map the process loaded when it began
InitialCount(u) ==
    IF u \in DOMAIN last.users THEN last.users[u].TokenCount ELSE 0

\* C16: a goroutine that holds the lock for writing holds it alone; a
\* goroutine is inside a write of the credit store only with the lock held
\* for writing and inside a read only with the lock held for reading, so no
\* reader runs while a write is half done; and the count of the user, who has
\* no key, is the count the process began with plus the tokens of every
\* RecordUsage that has stored its count, whatever the interleaving with
\* CanUseAPI, GetUserStats, SetSearchEnabled and autoSaveLoop.
TheoremC16 ==
    /\ \A h \in mu : h[2] = "w" => mu = {h}
    /\ \A g \in Goroutines :
          /\ pc[g] \in WriteSection <=> <<g, "w">> \in mu
          /\ pc[g] \in ReadSection <=> <<g, "r">> \in mu
    /\ \A g, h \in Goroutines :
          pc[g] \in ReadSection => pc[h] \notin WriteSection
    /\ Usage(<<"a">>) = InitialCount(<<"a">>) + Recorded(Procs)

\* two messages handled at once have both recorded their tokens on a count
\* that began at 1, the commands have run and the ticker has saved the sum
WitnessC16 ==
    /\ \A p \in Procs : pc[p] = "done" /\ TokensIn(trace[p]) >= 1
    /\ InitialCount(<<"a">>) = 1
    /\ Usage(<<"a">>) = 1 + Recorded(Procs)
    /\ nOps >= 2
    /\ ~dirty
    /\ file.exists /\ file.data[<<"a">>].token_count = Usage(<<"a">>)

\* C17: a task whose provider call is in flight holds the lock of the credit
\* store in no mode.
TheoremC17 ==
    \A p \in Procs : pc[p] = "wait" => \A h \in mu : h[1] # p

\* a provider call is in flight while another task writes the credit store
WitnessC17 ==
    \E p, q \in Procs :
        /\ pc[p] = "wait"
        /\ pc[q] = "recStore"
        /\ <<q, "w">> \in mu

\* C18: when no AddMessage is half done, a key stores as many turns as were
\* appended to it, up to the bound of 2 * maxHistory turns: no turn is lost.
CounterC18 ==
    (\A p \in Procs : pc[p] \notin {"addUserW", "addBotW"}) =>
       \A key \in DOMAIN turns :
          /\ Len(Stored(key)) <= 2 * maxHistory
          /\ Len(Stored(key)) = Min(Len(TurnsOf(key)), 2 * maxHistory)

(***************************************************************************)
(* Properties of the credit file                                           *)
(***************************************************************************)
\* the count of a user in the file
OnDisk(u) ==
    IF file.exists /\ u \in DOMAIN file.data THEN file.data[u].token_count ELSE 0

\* the largest count a run reaches
MaxCount == 1 + MaxOps * MaxReport

\* C19: while the process runs and the ticker fires, a count that RecordUsage
\* has set is in the file some time later (or the process has started again
\* before it was).
CounterC19 ==
    \A u \in UserIDs, n \in 1..MaxCount :
        (last.op = "RecordUsage" /\ last.user = u /\ Usage(u) = n)
        ~> (OnDisk(u) >= n \/ last.op = "Restart")

\* RecordUsage has counted tokens, a tick has found the store dirty, and the
\* store is clean while the file does not hold the count
WitnessC19 ==
    /\ last.op = "RecordUsage"
    /\ last.tokens > 0
    /\ ~dirty
    /\ Usage(last.user) > OnDisk(last.user)

\* C20: when the process starts again right after SetUserAPIKey(u, k) has
\* returned nil, GetUserAPIKey(u) returns k.
CounterC20 ==
    last.op = "Restart" /\ last.before.op = "SetUserAPIKey"
    /\ last.before.err = "nil"
    => GetUserAPIKey(last.before.user) = [key |-> last.before.key, err |-> "nil"]

\* the process has started again after SetUserAPIKey returned nil and the
\* user has no key
WitnessC20 ==
    /\ last.op = "Restart"
    /\ last.before.op = "SetUserAPIKey"
    /\ last.before.err = "nil"
    /\ ~HasKey(last.before.user)

\* the process has just started again
Restarted == last.op \in {"Restart", "CrashInWrite"}

\* C21: when the process has started again after it stopped at any point, no
\* user has a count above the one the memory held, and every user has the key
\* and the search flag the memory held.
CounterC21 ==
    Restarted =>
       \A u \in DOMAIN last.held :
          LET was == last.held[u]
          IN  /\ Usage(u) <= was.TokenCount
              /\ ~was.APIKey.isNil =>
                    /\ u \in DOMAIN users
                    /\ users[u].APIKey = was.APIKey
                    /\ users[u].Nonce = was.Nonce
              /\ was.SearchEnabled => IsSearchEnabled(u)

\* the process stopped inside a write of the file while the memory held a
\* key, and has started again without the key
WitnessC21 ==
    /\ last.op = "CrashInWrite"
    /\ \E u \in DOMAIN last.held :
          ~last.held[u].APIKey.isNil /\ ~HasKey(u)

(***************************************************************************)
(* Properties of the key lookup                                            *)
(***************************************************************************)
NotFound == "no API key found for user"
DecryptionFailed == "failed to decrypt API key"

\* the box of u's record was sealed under the master key and the nonce on record
Opens(u) ==
    /\ users[u].APIKey.key = MasterKey
    /\ users[u].APIKey.nonce = users[u].Nonce

\* C22: in the step in which a task looks up the key of its sender and sends
\* the request to the provider, GetUserAPIKey returns the not-found error when
\* the sender has no record or no key, the decryption error when the box on
\* record does not open under the master key, and the key otherwise; the
\* credit store stays as it is; and on either error the request goes out with
\* an empty key override.
TheoremC22 ==
    [][\A t \in Tasks :
          pc[t] = "lookup" /\ pc'[t] = "wait" =>
             LET u   == local[t].msg.UserID
                 r   == GetUserAPIKey(u)
                 req == trace'[t][Len(trace'[t])]
             IN  /\ UNCHANGED creditVars
                 /\ req.op \in {"GenerateText", "GenerateVision"}
                 /\ IF ~HasKey(u)
                    THEN r = [key |-> <<>>, err |-> NotFound]
                    ELSE IF ~Opens(u)
                    THEN r = [key |-> <<>>, err |-> DecryptionFailed]
                    ELSE r = [key |-> users[u].APIKey.plain, err |-> "nil"]
                 /\ r.err # "nil" => req.arg.UserKeyOverride = <<>>
                 /\ r.err = "nil" => req.arg.UserKeyOverride = r.key]_vars

\* a sender whose key was sealed under an earlier master key has been
\* answered: the request went out with no key override
WitnessC22 ==
    \E t \in Tasks :
        /\ pc[t] = "done"
        /\ HasKey(<<"a">>) /\ ~Opens(<<"a">>)
        /\ \E i \in DOMAIN trace[t] :
              /\ trace[t][i].op = "GenerateText"
              /\ trace[t][i].arg.UserKeyOverride = <<>>
        /\ trace[t][Len(trace[t])].op = "SendText"
        /\ SelectSeq(trace[t], IsSuccess) # <<>>

(***************************************************************************)
(* Properties of a panic in a task                                         *)
(***************************************************************************)
\* the step in which the recover of task p logs a panic
Panics(p) ==
    /\ Len(trace'[p]) = Len(trace[p]) + 1
    /\ trace'[p][Len(trace'[p])].op = "recover"

\* C23: the step in which a task panics ends that task, leaves it no lock of
\* the credit store, and leaves the other goroutines, the locks they hold and
\* the stores as they are; and at no time is the lock held by a goroutine that
\* is not inside a method of the credit store, so no task waits for a lock
\* that a task that has ended still holds.
TheoremC23 ==
    [][/\ \A p \in Procs :
             Panics(p) =>
                /\ pc'[p] = "done"
                /\ \A h \in mu' : h[1] # p
                /\ \A g \in Goroutines \ {p} :
                      /\ pc'[g] = pc[g]
                      /\ local'[g] = local[g]
                      /\ trace'[g] = trace[g]
                      /\ \A mode \in {"r", "w"} :
                            <<g, mode>> \in mu' <=> <<g, mode>> \in mu
                /\ UNCHANGED <<users, dirty, file, conversations>>
       /\ \A h \in mu' : pc'[h[1]] \in WriteSection \cup ReadSection]_vars

\* a task has panicked inside RecordUsage with the lock held for writing (it
\* had stored the count and not set dirty), and the other task has taken the
\* lock for its own RecordUsage after that
WitnessC23 ==
    \E p, q \in Procs :
        /\ p # q
        /\ trace[p] # <<>>
        /\ trace[p][Len(trace[p])].op = "recover"
        /\ TokensIn(trace[p]) >= 1
        /\ ~dirty
        /\ Usage(<<"a">>) > OnDisk(<<"a">>)
        /\ pc[q] = "recLoad"
        /\ mu = {<<q, "w">>}

(***************************************************************************)
(* The provider call                                                       *)
(***************************************************************************)
\* C24: a task that waits for the provider eventually stops waiting, also
\* when the provider never answers, and it has then ended on the failure
\* path or gone on with an answer the provider gave
CounterC24 ==
    \A t \in Tasks : (pc[t] = "wait") ~> (pc[t] # "wait")

\* a task is in the provider call of the second message it handles
WitnessC24 ==
    \E t \in Tasks :
        /\ pc[t] = "wait"
        /\ nMsgs = MaxMsgs
        /\ trace[t][Len(trace[t])].op \in {"GenerateText", "GenerateVision"}

\* the key the call asked for: the override, or the key of the service
KeyAsked(call) ==
    IF call.arg.cfg.UserKeyOverride # <<>> THEN call.arg.cfg.UserKeyOverride
    ELSE ServiceKey

\* C25: the request of every call carries the override the call was given, or
\* the key of the service when it was given none, whatever the other callers
\* do at the same time, and the APIKey field of the provider is the key of
\* the service before, during and after every call.
TheoremC25 ==
    /\ provider.APIKey = ServiceKey
    /\ \A c \in Callers :
          /\ pc[c] \in {"post", "wait"} => local[c].apiKey = KeyAsked(trace[c][1])
          /\ \A i \in 1..Len(trace[c]) :
                trace[c][i].op = "POST" => trace[c][i].arg.key = KeyAsked(trace[c][1])

\* two requests are out at the same time, one with the caller's key and one
\* with the key of the service, after a call with an override has returned
WitnessC25 ==
    /\ pc["c1"] = "wait" /\ trace["c1"][2].arg.key = KeyK1
    /\ pc["c2"] = "wait" /\ trace["c2"][2].arg.key = ServiceKey
    /\ nOps = MaxOps

\* the calls that have returned without an error
Successful(c) ==
    /\ trace[c] # <<>>
    /\ trace[c][Len(trace[c])].op = "Return"
    /\ trace[c][Len(trace[c])].arg.result.err = "nil"

\* a quarter of the length of the prompt, or of the text the request carried
Estimates(c) ==
    {Len(trace[c][1].arg.prompt) \div 4}
    \cup {Len(trace[c][i].arg.text) \div 4 :
             i \in {j \in 1..Len(trace[c]) : trace[c][j].op = "POST"}}

\* C26: a successful call of any provider reports the total of the vendor's
\* usage metadata when the response carries it and a quarter of the length
\* of the prompt, rounded down, when it does not; it never reports 0 tokens
\* for a prompt of 4 characters or more.
CounterC26 ==
    \A c \in Callers :
        Successful(c) =>
            LET ret    == trace[c][Len(trace[c])].arg
                prompt == trace[c][1].arg.prompt
            IN  /\ ret.answer.TotalTokenCount > 0 =>
                      ret.result.tokens = ret.answer.TotalTokenCount
                /\ ret.answer.TotalTokenCount = 0 =>
                      ret.result.tokens \in Estimates(c)
                /\ Len(prompt) >= 4 => ret.result.tokens > 0

\* the OpenAI provider has answered a text prompt of five characters, the
\* response carried no usage, and the call has reported 0 tokens
WitnessC26 ==
    \E c \in Callers :
        /\ provider.ID = "openai"
        /\ Successful(c)
        /\ Len(trace[c]) = 3
        /\ Len(trace[c][1].arg.prompt) = 5
        /\ trace[c][3].arg.answer.TotalTokenCount = 0
        /\ trace[c][3].arg.result.tokens = 0

(***************************************************************************)
(* Threads of the context store                                            *)
(***************************************************************************)
\* C27: AddMessage and ClearConversation for one pair of conversation id and
\* user id leave what GetConversationHistory returns for every other pair as
\* it was, also when the ids hold the separator.
CounterC27 ==
    [][\A room \in SepChatIDs, user \in SepUserIDs :
          (/\ last'.op \in {"AddMessage", "ClearConversation"}
           /\ <<last'.room, last'.user>> # <<room, user>>)
          => GetConversationHistory(room, user)' = GetConversationHistory(room, user)
      ]_vars

\* the one call so far is AddMessage for room "r|a" and user "a", and the
\* history of room "r" and user "a|a" is not empty
WitnessC27 ==
    /\ nOps = 1
    /\ last.op = "AddMessage"
    /\ last.room = <<"r", "|", "a">>
    /\ last.user = <<"a">>
    /\ GetConversationHistory(<<"r">>, <<"a", "|", "a">>) # <<>>

\* C28: ClearConversation can be called for any key; a second call changes
\* nothing the first has not changed, a call for a key with no thread changes
\* nothing at all, and after a call GetConversationHistory returns the empty
\* text for the key, as it does for a key nothing was ever added to.
TheoremC28 ==
    [][/\ \A room \in ChatIDs, user \in UserIDs :
             LET key  == GetConversationKey(room, user)
                 once == ClearConversation(conversations, room, user)
             IN  /\ ClearConversation(once, room, user) = once
                 /\ key \notin DOMAIN once
                 /\ key \notin DOMAIN conversations => once = conversations
                 /\ key \notin DOMAIN conversations =>
                       GetConversationHistory(room, user) = <<>>
                 /\ ENABLED CallClearConversation(room, user)
       /\ \A room \in ChatIDs, user \in UserIDs :
             last' = [op |-> "ClearConversation", room |-> room, user |-> user] =>
                /\ GetConversationHistory(room, user)' = <<>>
                /\ ClearConversation(conversations', room, user) = conversations'
      ]_vars

\* both threads held turns, the thread of one user has been cleared and the
\* thread of the other is as it was
WitnessC28 ==
    /\ last.op = "ClearConversation"
    /\ nOps = MaxAdds
    /\ GetConversationHistory(last.room, last.user) = <<>>
    /\ \E user \in UserIDs \ {last.user} :
          Len(Stored(GetConversationKey(last.room, user))) = 2

(***************************************************************************)
(* The roles of the stored turns                                           *)
(***************************************************************************)
\* C29: every turn the router has stored has role user or assistant, and when
\* an exchange has succeeded the last two turns of its key are the stripped
\* prompt with role user and then the provider's reply with role assistant.
CounterC29 ==
    /\ \A key \in DOMAIN conversations :
          \A i \in 1..Len(conversations[key].Messages) :
              conversations[key].Messages[i].Role \in {"user", "assistant"}
    /\ \A t \in Tasks :
          (pc[t] \in {"record", "send"} /\ maxHistory >= 1) =>
              LET msgs == Stored(KeyOf(local[t].msg))
              IN  /\ Len(msgs) >= 2
                  /\ LastN(msgs, 2) = <<Message("user", local[t].prompt),
                                        Message("assistant", local[t].response)>>

\* an exchange has been stored whole: the prompt with role user and the
\* provider's reply with role bot
WitnessC29 ==
    \E t \in Tasks :
        /\ pc[t] = "record"
        /\ maxHistory >= 1
        /\ Stored(KeyOf(local[t].msg)) =
              <<Message("user", local[t].prompt), Message("bot", local[t].response)>>

(***************************************************************************)
(* Commands with arguments their handlers do not take                      *)
(***************************************************************************)
\* the texts a handler sends for arguments it does not take
UsageTexts(name) ==
    IF name = CmdLlm
    THEN {<<"Usage: llm <subcommand> <args>">>, <<"Usage: llm setkey <your_api_key>">>,
          <<"Usage: llm enable <feature>">>, <<"Usage: llm disable <feature>">>,
          <<"Unknown feature. Available: search">>}
    ELSE {<<"Usage: ">> \o name}

\* the arguments are not what the handler registered under name takes
WrongArguments(name, args) ==
    \/ name \in LookupCommands \ {CmdRoulette} /\ args = <<>>
    \/ /\ name = CmdLlm
       /\ \/ args = <<>>
          \/ ToLower(args[1]) = SubSetKey /\ Len(args) # 2
          \/ /\ ToLower(args[1]) \in {SubEnable, SubDisable}
             /\ (Len(args) < 2 \/ ToLower(args[2]) # FeatureSearch)

OverrideOf(tr) == SelectSeq(tr, IsProviderCall)[1].arg.UserKeyOverride

\* C31: when a task whose provider call was made with the key of the service
\* (an empty override) records its usage, the token count of the sender grows
\* by the tokens the call reported, whatever SetUserAPIKey of the same user
\* did in between.
CounterC31 ==
    [][\A t \in Tasks :
          (/\ pc[t] = "record"
           /\ pc'[t] = "send"
           /\ OverrideOf(trace[t]) = <<>>)
          => Usage(local[t].msg.UserID)' =
                Usage(local[t].msg.UserID) + local[t].tokensUsed]_vars

\* a sender with no record asked, the call went out with the key of the
\* service and reported tokens, the key of the sender was set meanwhile, and
\* the usage has been recorded with the count still at 0
WitnessC31 ==
    \E t \in Tasks :
        /\ pc[t] = "send"
        /\ ~trace[t][1].arg.known
        /\ OverrideOf(trace[t]) = <<>>
        /\ local[t].tokensUsed >= 1
        /\ <<"a">> \in DOMAIN keysSet
        /\ Usage(<<"a">>) = 0

(***************************************************************************)
(* The quota gate under messages of one user in flight together            *)
(***************************************************************************)
\* C32: no provider call is started for a user without a personal key at a
\* moment when the recorded usage of that user has reached the global limit,
\* also when several messages of the user are handled at once.
CounterC32 ==
    [][\A p \in Procs :
          (pc[p] = "searchR" /\ pc'[p] = "wait") =>
              \/ HasKey(local[p].msg.UserID)
              \/ Usage(local[p].msg.UserID) < globalLimit]_vars

\* the call of one goroutine is out while the usage the other has recorded
\* stands at the limit
WitnessC32 ==
    \E p, q \in Procs :
        /\ p # q
        /\ pc[p] = "wait"
        /\ pc[q] = "done"
        /\ TokensIn(trace[q]) >= 1
        /\ ~HasKey(<<"a">>)
        /\ Usage(<<"a">>) >= globalLimit

(***************************************************************************)
(* The dirty flag of the credit store                                      *)
(***************************************************************************)
\* C33: while every write of the file succeeds, the file holds the map of
\* the store in every state in which dirty is not set; and every step that
\* changes the map has written the new map to the file or has set dirty.
TheoremC33 ==
    [][/\ ~dirty => loadFromFile(file) = users
       /\ ~dirty' => loadFromFile(file') = users'
       /\ users' # users => (file' = WriteFile(users') \/ dirty')]_vars

\* usage was recorded and a tick has written it: the store is clean and the
\* file holds the count
WitnessC33 ==
    /\ ~dirty
    /\ Usage(<<"a">>) >= 2
    /\ OnDisk(<<"a">>) = Usage(<<"a">>)
    /\ HasKey(<<"b">>)

(***************************************************************************)
(* The way back for a user over the limit                                  *)
(***************************************************************************)
\* C34: the command that sets the key is run for its sender whatever the
\* usage of the sender is, with no quota check before it; when it is done the
\* sender has a key and CanUseAPI is true for the sender; a key once set
\* stays; and an addressed message of a sender with a key is admitted and
\* goes on to the provider call without a return in between.
TheoremC34 ==
    [][/\ \A t \in Tasks, m \in RouteMessages :
             Handles(t, m) =>
                /\ m.Content = TextSetKey =>
                      /\ pc'[t] = "done"
                      /\ trace'[t][2] = Event("Execute", CmdLlm)
                      /\ HasKey(m.UserID)'
                      /\ CanUseAPI(m.UserID)'
                /\ (HasKey(m.UserID) /\ IsDirect(m) /\ ~IsCommand(m)) =>
                      /\ pc'[t] = "process"
                      /\ trace'[t][2] = Event("CanUseAPI", TRUE)
       /\ \A t \in Tasks :
             /\ pc[t] = "process" /\ pc'[t] # "process" => pc'[t] = "lookup"
             /\ pc[t] = "lookup" /\ pc'[t] # "lookup" =>
                   /\ pc'[t] = "wait"
                   /\ IsProviderCall(trace'[t][Len(trace'[t])])
       /\ \A u \in UserIDs : HasKey(u) => HasKey(u)'
      ]_vars

\* a sender whose usage had reached the limit has set a key, and the next
\* message of the sender is with the provider, with the key as override
WitnessC34 ==
    \E t \in Tasks :
        /\ pc[t] = "wait"
        /\ globalLimit >= 1
        /\ Usage(<<"a">>) >= globalLimit
        /\ HasKey(<<"a">>)
        /\ OverrideOf(trace[t]) = KeyK1

(***************************************************************************)
(* What a command changes                                                  *)
(***************************************************************************)
\* the tokens after the name of the bot, in lower case
CommandWords(m) ==
    LET parts == Fields(m.Content)
    IN  [i \in 1..(Len(parts) - 1) |-> ToLower(parts[i + 1])]

\* two records that differ in the fields named at most
SameBut(r, q, fields) ==
    /\ "TokenCount" \notin fields => r.TokenCount = q.TokenCount
    /\ "APIKey" \notin fields => r.APIKey = q.APIKey /\ r.Nonce = q.Nonce
    /\ "SearchEnabled" \notin fields => r.SearchEnabled = q.SearchEnabled
    /\ r.UserID = q.UserID

\* C35: a message that names a registered command is handled by the handler
\* of that command and by nothing else: HandleMessage returns in the same
\* step with no quota check, no provider call, no appended turn and no usage
\* recorded; the credit store changes only for the sender and only by setkey
\* (the key) and by enable or disable (the search flag), and the
\* conversations change only by clear, which removes the sender's thread.
TheoremC35 ==
    [][\A t \in Tasks, m \in ArgMessages :
          (Handles(t, m) /\ LooksLikeCommand(m) /\ Registered(Fields(m.Content)[2])) =>
             LET w   == CommandWords(m)
                 sub == IF Len(w) >= 2 /\ w[1] = CmdLlm THEN w[2] ELSE <<>>
                 u   == m.UserID
                 old == WithUser(users, u)
             IN  /\ pc'[t] = "done"
                 /\ \A i \in 2..Len(trace'[t]) :
                       trace'[t][i].op \in {"Execute", "SendText"}
                 /\ trace'[t][2] = Event("Execute", w[1])
                 /\ dirty' = dirty
                 /\ users' # users =>
                       /\ sub \in {SubSetKey, SubEnable, SubDisable}
                       /\ DOMAIN users' = DOMAIN old
                       /\ \A o \in DOMAIN old \ {u} : users'[o] = old[o]
                       /\ SameBut(users'[u], old[u],
                                  IF sub = SubSetKey THEN {"APIKey"}
                                  ELSE {"SearchEnabled"})
                 /\ conversations' # conversations =>
                       /\ sub = SubClear
                       /\ conversations' =
                             ClearConversation(conversations, m.ChatID, u)
      ]_vars

\* clear came from a sender with a thread and a count: the thread is gone,
\* the count is what it was, and nothing but the confirmation was sent
WitnessC35 ==
    \E t \in Tasks :
        /\ pc[t] = "done"
        /\ trace[t][1].arg.msg.Content = TextClear
        /\ trace[t][1].arg.stored # <<>>
        /\ trace[t][1].arg.usage >= 1
        /\ Usage(<<"a">>) = trace[t][1].arg.usage
        /\ GetConversationHistory(<<"r">>, <<"a">>) = <<>>
        /\ Len(trace[t]) = 3

(***************************************************************************)
(* What a method of the credit store changes                               *)
(***************************************************************************)
\* the records of everybody but u are what they were, present or not
OthersKept(u) ==
    \A o \in UserIDs \ {u} :
        /\ o \in DOMAIN users' <=> o \in DOMAIN users
        /\ o \in DOMAIN users => users'[o] = users[o]

\* the call that is made in this step
Calling(op, u) == nOps' = nOps + 1 /\ last'.op = op /\ last'.user = u

\* C36: a method of the credit store changes its own field of its own user
\* and nothing else: SetUserAPIKey leaves the count and the search flag of
\* the user, SetSearchEnabled leaves the count and the key and makes
\* IsSearchEnabled answer the value set, RecordUsage leaves the key and the
\* flag, none of them touches the record of another user, and
\* IsSearchEnabled is false for a user the store has never seen.
TheoremC36 ==
    [][\A u \in UserIDs :
          LET old == WithUser(users, u)
          IN  /\ Calling("SetUserAPIKey", u) =>
                    /\ SameBut(users'[u], old[u], {"APIKey"})
                    /\ OthersKept(u)
              /\ Calling("SetSearchEnabled", u) =>
                    /\ SameBut(users'[u], old[u], {"SearchEnabled"})
                    /\ IsSearchEnabled(u)' = last'.enabled
                    /\ OthersKept(u)
              /\ Calling("RecordUsage", u) =>
                    /\ SameBut(users'[u], old[u], {"TokenCount"})
                    /\ OthersKept(u)
              /\ u \notin DOMAIN users => ~IsSearchEnabled(u)
      ]_vars

\* search was switched on for a user with a count and a key, next to another
\* user with a record of their own, and the count and the key are still there
WitnessC36 ==
    /\ last.op = "SetSearchEnabled" /\ last.user = <<"a">> /\ last.enabled
    /\ IsSearchEnabled(<<"a">>)
    /\ HasKey(<<"a">>)
    /\ Usage(<<"a">>) >= 1
    /\ Usage(<<"b">>) >= 1

(***************************************************************************)
(* Records only grow                                                       *)
(***************************************************************************)
\* C37: under the methods of the credit store a record is never deleted,
\* its token count never goes down, and a key once set is never removed (it
\* may be replaced by another key), so CanUseAPI stays true for a user who
\* has set a key.
TheoremC37 ==
    [][\A u \in UserIDs :
          /\ u \in DOMAIN users =>
                /\ u \in DOMAIN users'
                /\ users'[u].TokenCount >= users[u].TokenCount
          /\ HasKey(u) => HasKey(u)' /\ CanUseAPI(u)'
          /\ KeysOf(u) # <<>> => HasKey(u) /\ CanUseAPI(u)
      ]_vars

\* a user at the limit set a key, then another key, and usage was reported
\* for them after that: the count is what it was and CanUseAPI is true
WitnessC37 ==
    /\ Len(KeysOf(<<"a">>)) >= 2
    /\ KeysOf(<<"a">>)[1] # KeysOf(<<"a">>)[2]
    /\ last.op = "RecordUsage" /\ last.user = <<"a">> /\ last.tokens >= 1
    /\ globalLimit >= 1
    /\ Usage(<<"a">>) >= globalLimit
    /\ CanUseAPI(<<"a">>)

(***************************************************************************)
(* Whole exchanges in the stored history                                   *)
(***************************************************************************)
\* where a goroutine is from the start of its first AddMessage to the end of
\* its second
BetweenAdds == {"addUser", "addUserW", "addBot", "addBotW"}

\* user turn, reply turn, user turn, reply turn, ...
Aligned(msgs) ==
    /\ Len(msgs) % 2 = 0
    /\ \A i \in 1..Len(msgs) : (msgs[i].Role = "user") <=> (i % 2 = 1)

\* the task of goroutine p ended in a panic
Panicked(p) == \E i \in 1..Len(trace[p]) : trace[p][i].op = "recover"

\* C38: whenever no task is between its two AddMessage calls (and none was
\* cut short by a panic), the stored history of every key has even length and
\* alternates user turn and reply turn, beginning with a user turn, also
\* after the oldest turns were evicted.
CounterC38 ==
    (\A p \in Procs : pc[p] \notin BetweenAdds /\ ~Panicked(p)) =>
        \A key \in DOMAIN conversations : Aligned(Stored(key))

\* both tasks have returned without a panic and the history of their key is
\* two reply turns
WitnessC38 ==
    /\ \A p \in Procs : pc[p] = "done" /\ ~Panicked(p)
    /\ LET msgs == Stored(KeyOf(ParMessage("m1")))
       IN  /\ Len(msgs) = 2
           /\ msgs[1].Role = "bot"
           /\ msgs[2].Role = "bot"

(***************************************************************************)
(* Every addressed message gets its answer                                 *)
(***************************************************************************)
\* a send that ends a task: anything but the notice that an image is looked at
IsTerminalSend(e) == e.op = "SendText" /\ e.arg # AnalyzingText

\* the terminal message the task of trace tr owes its sender
TerminalText(tr) ==
    LET m == tr[1].arg.msg
    IN  IF tr[2] = Event("CanUseAPI", FALSE) THEN LimitText
        ELSE LET r == SelectSeq(tr, IsReturn)[1].arg
             IN  IF r.err = "nil" THEN r.response
                 ELSE IF m.IsImage THEN ImageErrorText ELSE TroubleText

\* the task in slot t has returned from an addressed message that is no
\* command with exactly one terminal message sent, as the last thing it did
AnsweredOnce(t) ==
    LET tr == trace[t]
        m  == tr[1].arg.msg
    IN  (pc[t] = "done" /\ tr # <<>> /\ IsDirect(m) /\ ~IsCommand(m)) =>
            /\ SelectSeq(tr, IsTerminalSend) = <<Sent(TerminalText(tr))>>
            /\ \/ tr[Len(tr)] = Sent(TerminalText(tr))
               \/ /\ tr[Len(tr)].op = "SendError"
                  /\ tr[Len(tr) - 1] = Sent(TerminalText(tr))

\* C39: every message that is addressed to the bot and is no command gets
\* exactly one terminal message, the reply, the apology or the limit text:
\* a task in flight has sent none, a task that has returned has sent exactly
\* one as its last act, and, provided the provider call returns, every task
\* in flight returns.
TheoremC39 ==
    /\ [](\A t \in Tasks :
             /\ InFlight(t) => SelectSeq(trace[t], IsTerminalSend) = <<>>
             /\ AnsweredOnce(t))
    /\ \A t \in Tasks :
          (pc[t] = "wait" ~> pc[t] # "wait") => (InFlight(t) ~> pc[t] = "done")

\* the second message of a sender went through the provider, whose call
\* failed, and the apology was the one thing sent for it
WitnessC39 ==
    \E t \in Tasks :
        /\ pc[t] = "done"
        /\ nMsgs = MaxMsgs
        /\ IsDirect(trace[t][1].arg.msg)
        /\ ~IsCommand(trace[t][1].arg.msg)
        /\ SelectSeq(trace[t], IsReturn) # <<>>
        /\ SelectSeq(trace[t], IsReturn)[1].arg.err # "nil"
        /\ SelectSeq(trace[t], IsSend) = <<Sent(TroubleText)>>

====
